---- MODULE Spec2Model ----
(***************************************************************************)
(* A model of the human-scheduler repository: the XNU Clutch scheduler     *)
(* port (src/xnu_sched) and the way its drivers (src/simulator/engine.py)  *)
(* call the scheduler facade.                                              *)
(*                                                                         *)
(* The scheduler is sequential Python: every facade method is translated   *)
(* into an operator from a world record (all scheduler objects) to a world *)
(* record, statement by statement.  An action of the model is one whole    *)
(* handler.                                                                *)
(*                                                                         *)
(* TLC integers are 32-bit.  Python integers are unbounded, so the model   *)
(* keeps every time value below 2^31 and represents the all-ones sentinels *)
(* of constants.py by the largest values of that range.                    *)
(***************************************************************************)
EXTENDS Integers, Sequences, FiniteSets, TLC

(***************************************************************************)
(* constants.py                                                            *)
(***************************************************************************)
NRQS_MAX == 128
MAXPRI == 127
MINPRI == 0
NOPRI == -1
BASEPRI_REALTIME == 96
BASEPRI_RTQUEUES == 97
BASEPRI_PREEMPT == 92
BASEPRI_DEFAULT == 31
BASEPRI_CONTROL == 48
BASEPRI_FOREGROUND == 47
BASEPRI_USER_INITIATED == 37
BASEPRI_UTILITY == 20
MAXPRI_THROTTLE == 4
NRQS == 96

TH_BUCKET_FIXPRI == 0
TH_BUCKET_SHARE_FG == 1
TH_BUCKET_SHARE_IN == 2
TH_BUCKET_SHARE_DF == 3
TH_BUCKET_SHARE_UT == 4
TH_BUCKET_SHARE_BG == 5
TH_BUCKET_SCHED_MAX == 6

TH_MODE_REALTIME == 1
TH_MODE_FIXED == 2
TH_MODE_TIMESHARE == 3

\* 0xFFFFFFFFFFFFFFFF in the source: the largest time of the model's range.
SCHED_CLUTCH_INVALID_TIME_64 == 2147483647
\* 0xFFFFFFFF in the source; only ever a table entry of the FIXPRI bucket.
SCHED_CLUTCH_INVALID_TIME_32 == 2147483646
\* 0xFFFFFFFFFFFFFFFF and 0xFFFFFFFFFFFFFFFE in the source: the two largest deadlines of the
\* model's range, which leaves room for the additions of the deadline epsilon.
RT_DEADLINE_NONE == 2147483001
RT_DEADLINE_QUANTUM_EXPIRED == 2147483000

SCHED_CLUTCH_BUCKET_GROUP_INTERACTIVE_PRI_DEFAULT == 8
SCHED_CLUTCH_BUCKET_GROUP_ADJUST_THRESHOLD_US == 500000
SCHED_CLUTCH_BUCKET_GROUP_ADJUST_RATIO == 10
SCHED_PRI_SHIFT_MAX == 31
SCHED_FIXED_SHIFT == 31
SCHED_DECAY_TICKS == 32
INT8_MAX == 127

Buckets == 0 .. (TH_BUCKET_SCHED_MAX - 1)

ROOT_BUCKET_WCEL_US == <<SCHED_CLUTCH_INVALID_TIME_32, 0, 37500, 75000, 150000, 250000>>
\* Warp windows that outlast any run: what the table would be without a bounded warp budget.
ROOT_BUCKET_WARP_US_unbounded ==
  <<SCHED_CLUTCH_INVALID_TIME_32, 1000000000, 1000000000, 1000000000, 1000000000, 0>>
ROOT_BUCKET_WARP_US == <<SCHED_CLUTCH_INVALID_TIME_32, 8000, 4000, 2000, 1000, 0>>
THREAD_QUANTUM_US == <<10000, 10000, 8000, 6000, 4000, 2000>>
SCHED_CLUTCH_BUCKET_GROUP_PENDING_DELTA_US == <<SCHED_CLUTCH_INVALID_TIME_32, 10000, 37500, 75000, 150000, 250000>>

\* SCHED_DECAY_SHIFTS[ticks] is entry ticks + 1 of this sequence.
SCHED_DECAY_SHIFTS ==
  << <<1, 1>>, <<1, 3>>, <<1, -3>>, <<2, -7>>, <<3, 5>>, <<3, -5>>, <<4, -8>>, <<5, 7>>,
     <<5, -7>>, <<6, -10>>, <<7, 10>>, <<7, -9>>, <<8, -11>>, <<9, 12>>, <<9, -11>>, <<10, -13>>,
     <<11, 14>>, <<11, -13>>, <<12, -15>>, <<13, 17>>, <<13, -15>>, <<14, -17>>, <<15, 19>>, <<16, 18>>,
     <<16, -19>>, <<17, 22>>, <<18, 20>>, <<18, -20>>, <<19, 26>>, <<20, 22>>, <<20, -22>>, <<21, -27>> >>

\* _compute_load_shifts(): shifts[0] = -128, shifts[1] = 0, then k for 2^k <= i < 2^(k+1).
SCHED_LOAD_SHIFTS(load) ==
  IF load = 0 THEN -128
  ELSE IF load = 1 THEN 0
  ELSE IF load < 4 THEN 1
  ELSE IF load < 8 THEN 2
  ELSE IF load < 16 THEN 3
  ELSE IF load < 32 THEN 4
  ELSE IF load < 64 THEN 5
  ELSE 6

\* Enqueue options (sched_options_t) and clutch bucket options, as flag names.
SCHED_TAILQ == "TAILQ"
SCHED_HEADQ == "HEADQ"
SCHED_PREEMPT == "PREEMPT"
SCHED_CLUTCH_BUCKET_OPTIONS_NONE == "NONE"
SCHED_CLUTCH_BUCKET_OPTIONS_SAMEPRI_RR == "SAMEPRI_RR"
SCHED_CLUTCH_BUCKET_OPTIONS_HEADQ == "CB_HEADQ"
SCHED_CLUTCH_BUCKET_OPTIONS_TAILQ == "CB_TAILQ"

is_above_timeshare(bucket) == bucket = TH_BUCKET_FIXPRI

(***************************************************************************)
(* Integer helpers                                                         *)
(***************************************************************************)
Max(a, b) == IF a >= b THEN a ELSE b
Min(a, b) == IF a <= b THEN a ELSE b

\* x >> n for 0 <= x < 2^31.
Shr(x, n) == IF n >= 31 THEN 0 ELSE x \div (2 ^ n)

\* n1 / d1 <= n2 / d2 for n1, n2 >= 0 and d1, d2 > 0, by Euclid's steps (no product formed).
RECURSIVE FracLeq(_, _, _, _)
FracLeq(n1, d1, n2, d2) ==
  IF (n1 \div d1) # (n2 \div d2) THEN (n1 \div d1) < (n2 \div d2)
  ELSE IF n1 % d1 = 0 THEN TRUE
  ELSE IF n2 % d2 = 0 THEN FALSE
  ELSE FracLeq(d2, n2 % d2, d1, n1 % d1)

\* a * b <= c * d for a, b, c, d >= 0.
ProdLeq(a, b, c, d) ==
  IF a = 0 \/ b = 0 THEN TRUE
  ELSE IF c = 0 \/ d = 0 THEN FALSE
  ELSE FracLeq(a, d, c, b)

\* floor((A * u) / (A + u * p)) for A, u >= 0 and p >= 1: the largest x with
\* x * (A + u * p) <= A * u, that is x <= u and (x * p) * u <= A * (u - x); x * p <= A.
RECURSIVE PendingQuotientSearch(_, _, _, _, _)
PendingQuotientSearch(A, u, p, lo, hi) ==
  IF lo >= hi THEN lo
  ELSE LET mid == (lo + hi + 1) \div 2
       IN IF mid <= u /\ ProdLeq(mid * p, u, A, u - mid)
          THEN PendingQuotientSearch(A, u, p, mid, hi)
          ELSE PendingQuotientSearch(A, u, p, lo, mid - 1)

PendingQuotient(A, u, p) == PendingQuotientSearch(A, u, p, 0, A \div p)

SeqRemoveFirst(s, x) ==
  IF \E i \in 1 .. Len(s) : s[i] = x
  THEN LET i == CHOOSE j \in 1 .. Len(s) : s[j] = x /\ \A k \in 1 .. (j - 1) : s[k] # x
       IN SubSeq(s, 1, i - 1) \o SubSeq(s, i + 1, Len(s))
  ELSE s

SeqContains(s, x) == \E i \in 1 .. Len(s) : s[i] = x

(***************************************************************************)
(* priority_queue.py.  A heap is the set of its tuples: every tuple holds  *)
(* a unique counter, so the heap's head is the least tuple whatever the    *)
(* layout of the list.                                                     *)
(***************************************************************************)
PQ_New == [heap |-> {}, counter |-> 0]

\* Tuple order of (k, c) entries.
PQ_Less(a, b) == a.k < b.k \/ (a.k = b.k /\ a.c < b.c)

PQ_Head(q) == CHOOSE e \in q.heap : \A f \in q.heap \ {e} : PQ_Less(e, f)

\* PriorityQueueMax.insert with key(item) = pri.
PriorityQueueMax_insert(q, item, pri) ==
  [heap |-> q.heap \cup {[k |-> -pri, c |-> q.counter + 1, item |-> item]}, counter |-> q.counter + 1]

PriorityQueueMax_remove(q, item) == [q EXCEPT !.heap = {e \in q.heap : e.item # item}]

PriorityQueueMax_max_priority(q) == IF q.heap = {} THEN -1 ELSE -(PQ_Head(q).k)

\* PriorityQueueDeadlineMin.insert with deadline_fn(item) = deadline.
PriorityQueueDeadlineMin_insert(q, item, deadline) ==
  [heap |-> q.heap \cup {[k |-> deadline, c |-> q.counter + 1, item |-> item]}, counter |-> q.counter + 1]

PriorityQueueDeadlineMin_remove(q, item) == [q EXCEPT !.heap = {e \in q.heap : e.item # item}]

PriorityQueueDeadlineMin_peek_min(q) == IF q.heap = {} THEN -1 ELSE PQ_Head(q).item

\* StablePriorityQueue: entries (-key, stamp_key, seq_key, item).
SPQ_Less(a, b) ==
  \/ a.k < b.k
  \/ a.k = b.k /\ a.sk < b.sk
  \/ a.k = b.k /\ a.sk = b.sk /\ a.sq < b.sq

SPQ_Head(q) == CHOOSE e \in q.heap : \A f \in q.heap \ {e} : SPQ_Less(e, f)

\* StablePriorityQueue.insert with the insertion counter as tie-break for every entry.
StablePriorityQueue_insert_fifo(q, item, pri, preempted, stamp) ==
  LET counter == q.counter + 1
      key == (pri * 256) + (IF preempted THEN 1 ELSE 0)
      stamp_key == IF preempted THEN -stamp ELSE stamp
  IN [heap |-> q.heap \cup {[k |-> -key, sk |-> stamp_key, sq |-> counter, item |-> item]},
      counter |-> counter]

StablePriorityQueue_insert(q, item, pri, preempted, stamp) ==
  LET counter == q.counter + 1
      key == (pri * 256) + (IF preempted THEN 1 ELSE 0)
      stamp_key == IF preempted THEN -stamp ELSE stamp
      seq_key == IF preempted THEN -counter ELSE counter
  IN [heap |-> q.heap \cup {[k |-> -key, sk |-> stamp_key, sq |-> seq_key, item |-> item]},
      counter |-> counter]

StablePriorityQueue_remove(q, item) == [q EXCEPT !.heap = {e \in q.heap : e.item # item}]

\* None is 0: thread, processor and bucket identifiers start at 1 (buckets: -1).
StablePriorityQueue_peek_max(q) == IF q.heap = {} THEN 0 ELSE SPQ_Head(q).item

StablePriorityQueue_max_priority(q) == IF q.heap = {} THEN -1 ELSE (-(SPQ_Head(q).k)) \div 256

StablePriorityQueue_pop_max(q) == [q EXCEPT !.heap = @ \ {SPQ_Head(q)}]

\* refresh_priorities with pri_fn given as a function of the item.
StablePriorityQueue_refresh_priorities(q, pri) ==
  [q EXCEPT !.heap =
     {[k |-> -((pri[e.item] * 256) + ((-e.k) % 2)), sk |-> e.sk, sq |-> e.sq, item |-> e.item] :
        e \in q.heap}]

(***************************************************************************)
(* ClutchBucketRunqueue (priority_queue.py): highq, count, bitmap and one  *)
(* deque per priority.  The deques are kept as a function defined on the   *)
(* priorities whose deque is non-empty; the bitmap is a set of bits.       *)
(***************************************************************************)
ClutchBucketRunqueue_New == [highq |-> -1, count |-> 0, bitmap |-> {}, queues |-> <<>>]

CBRQ_queue(rq, priority) == IF priority \in DOMAIN rq.queues THEN rq.queues[priority] ELSE <<>>

CBRQ_with(rq, priority, q) ==
  LET dom == IF q = <<>> THEN (DOMAIN rq.queues) \ {priority} ELSE (DOMAIN rq.queues) \cup {priority}
  IN [p \in dom |-> IF p = priority THEN q ELSE rq.queues[p]]

\* bitmap.bit_length() - 1, or -1 for the empty bitmap.
BitmapHighest(bitmap) == IF bitmap = {} THEN -1 ELSE CHOOSE b \in bitmap : \A c \in bitmap : c <= b

\* _bitmap_lsb_first: the lowest set bit, or -1.
BitmapLowest(bitmap) == IF bitmap = {} THEN -1 ELSE CHOOSE b \in bitmap : \A c \in bitmap : b <= c

ClutchBucketRunqueue_enqueue(rq, item, priority, head) ==
  LET q == CBRQ_queue(rq, priority)
      nq == IF head THEN <<item>> \o q ELSE Append(q, item)
  IN [highq |-> IF priority > rq.highq THEN priority ELSE rq.highq,
      count |-> rq.count + 1,
      bitmap |-> rq.bitmap \cup {priority},
      queues |-> CBRQ_with(rq, priority, nq)]

\* dequeue that leaves highq where it is when the highest level empties.
ClutchBucketRunqueue_dequeue_keeping_highq(rq, item, priority) ==
  LET nq == SeqRemoveFirst(CBRQ_queue(rq, priority), item)
  IN [highq |-> rq.highq,
      count |-> rq.count - 1,
      bitmap |-> IF nq = <<>> THEN rq.bitmap \ {priority} ELSE rq.bitmap,
      queues |-> CBRQ_with(rq, priority, nq)]

ClutchBucketRunqueue_dequeue(rq, item, priority) ==
  LET nq == SeqRemoveFirst(CBRQ_queue(rq, priority), item)
      bitmap == IF nq = <<>> THEN rq.bitmap \ {priority} ELSE rq.bitmap
  IN [highq |-> IF nq = <<>> /\ priority = rq.highq THEN BitmapHighest(bitmap) ELSE rq.highq,
      count |-> rq.count - 1,
      bitmap |-> bitmap,
      queues |-> CBRQ_with(rq, priority, nq)]

\* The first clutch bucket of the highest level; <<>> is None.
ClutchBucketRunqueue_peek_highest(rq) ==
  IF rq.highq < 0 THEN <<>>
  ELSE IF CBRQ_queue(rq, rq.highq) = <<>> THEN <<>> ELSE Head(CBRQ_queue(rq, rq.highq))

ClutchBucketRunqueue_rotate_at(rq, priority) ==
  LET q == CBRQ_queue(rq, priority)
  IN IF Len(q) > 1 THEN [rq EXCEPT !.queues = CBRQ_with(rq, priority, Append(Tail(q), Head(q)))] ELSE rq

(***************************************************************************)
(* clutch.py: SchedClutchBucketGroup.  A group is a record g; its bucket   *)
(* is passed where the method reads self.scbg_bucket.                      *)
(***************************************************************************)
SchedClutchBucketGroup_New ==
  [scbg_timeshare_tick |-> 0,
   scbg_pri_shift |-> INT8_MAX,
   scbg_cpu_used |-> 0,
   scbg_cpu_blocked |-> SCHED_CLUTCH_BUCKET_GROUP_ADJUST_THRESHOLD_US,
   scbg_blocked_count |-> 0,
   scbg_blocked_ts |-> SCHED_CLUTCH_INVALID_TIME_64,
   scbg_pending_count |-> 0,
   scbg_pending_ts |-> SCHED_CLUTCH_INVALID_TIME_64,
   scbg_interactivity_score |-> SCHED_CLUTCH_BUCKET_GROUP_INTERACTIVE_PRI_DEFAULT * 2,
   scbg_interactivity_ts |-> 0]

run_count_inc(g, timestamp) ==
  LET old_count == g.scbg_blocked_count
      old_ts == g.scbg_blocked_ts
      g1 == [g EXCEPT !.scbg_blocked_count = old_count + 1]
  IN IF old_count = 0
     THEN LET g2 == [g1 EXCEPT !.scbg_blocked_ts = SCHED_CLUTCH_INVALID_TIME_64]
          IN IF old_ts # SCHED_CLUTCH_INVALID_TIME_64 /\ timestamp > old_ts
             THEN [g2 EXCEPT !.scbg_cpu_blocked =
                     @ + Min(timestamp - old_ts, SCHED_CLUTCH_BUCKET_GROUP_ADJUST_THRESHOLD_US)]
             ELSE g2
     ELSE g1

run_count_dec(g, timestamp) ==
  LET g1 == [g EXCEPT !.scbg_blocked_count = @ - 1]
  IN IF g1.scbg_blocked_count = 0 THEN [g1 EXCEPT !.scbg_blocked_ts = timestamp] ELSE g1

thr_count_inc(g, timestamp) ==
  [g EXCEPT !.scbg_pending_count = @ + 1,
            !.scbg_pending_ts = IF @ = SCHED_CLUTCH_INVALID_TIME_64 THEN timestamp ELSE @]

thr_count_dec(g, timestamp) ==
  [g EXCEPT !.scbg_pending_count = @ - 1,
            !.scbg_pending_ts = IF g.scbg_pending_count - 1 = 0 THEN SCHED_CLUTCH_INVALID_TIME_64
                                ELSE timestamp]

cpu_usage_update(g, bucket, delta) ==
  IF is_above_timeshare(bucket) THEN g
  ELSE [g EXCEPT !.scbg_cpu_used = @ + Min(delta, SCHED_CLUTCH_BUCKET_GROUP_ADJUST_THRESHOLD_US)]

cpu_pending_adjust(cpu_used, cpu_blocked, pending_intervals) ==
  LET interactive_pri == SCHED_CLUTCH_BUCKET_GROUP_INTERACTIVE_PRI_DEFAULT
  IN IF pending_intervals = 0 THEN cpu_used
     ELSE IF cpu_blocked < cpu_used
     THEN \* numerator // denominator; the denominator is 0 only when both terms are.
          IF interactive_pri * cpu_blocked = 0 /\ cpu_used = 0 THEN 0
          ELSE PendingQuotient(interactive_pri * cpu_blocked, cpu_used, pending_intervals)
     ELSE IF pending_intervals >= interactive_pri THEN 0
     ELSE Max(0, cpu_used - ((cpu_blocked * pending_intervals) \div interactive_pri))

cpu_adjust(g, pending_intervals) ==
  LET sum == g.scbg_cpu_used + g.scbg_cpu_blocked
      scale == sum >= SCHED_CLUTCH_BUCKET_GROUP_ADJUST_THRESHOLD_US
      cpu_used == IF scale THEN g.scbg_cpu_used \div SCHED_CLUTCH_BUCKET_GROUP_ADJUST_RATIO
                  ELSE g.scbg_cpu_used
      cpu_blocked == IF scale THEN g.scbg_cpu_blocked \div SCHED_CLUTCH_BUCKET_GROUP_ADJUST_RATIO
                     ELSE g.scbg_cpu_blocked
  IN IF pending_intervals = 0 /\ sum < SCHED_CLUTCH_BUCKET_GROUP_ADJUST_THRESHOLD_US THEN g
     ELSE [g EXCEPT !.scbg_cpu_used = cpu_pending_adjust(cpu_used, cpu_blocked, pending_intervals),
                    !.scbg_cpu_blocked = cpu_blocked]

interactivity_from_cpu_data(g) ==
  LET cpu_used == g.scbg_cpu_used
      cpu_blocked == g.scbg_cpu_blocked
      interactive_pri == SCHED_CLUTCH_BUCKET_GROUP_INTERACTIVE_PRI_DEFAULT
  IN IF cpu_blocked = 0 /\ cpu_used = 0 THEN g.scbg_interactivity_score
     ELSE IF cpu_blocked > cpu_used
     THEN interactive_pri + ((interactive_pri * (cpu_blocked - cpu_used)) \div cpu_blocked)
     ELSE IF cpu_used = 0 THEN interactive_pri
     ELSE (interactive_pri * cpu_blocked) \div cpu_used

\* _pending_ageout: <<pending intervals, the group afterwards>>.
pending_ageout(g, bucket, timestamp, global_bucket_load) ==
  LET old_pending_ts == g.scbg_pending_ts
      pending_delta == timestamp - old_pending_ts
      interactivity_delta == SCHED_CLUTCH_BUCKET_GROUP_PENDING_DELTA_US[bucket + 1]
                               + (global_bucket_load * THREAD_QUANTUM_US[bucket + 1])
  IN IF old_pending_ts >= timestamp \/ old_pending_ts = SCHED_CLUTCH_INVALID_TIME_64
          \/ global_bucket_load = 0
     THEN <<0, g>>
     ELSE IF interactivity_delta = 0 \/ pending_delta < interactivity_delta THEN <<0, g>>
     ELSE LET cpu_usage_shift == pending_delta \div interactivity_delta
          IN <<cpu_usage_shift,
               [g EXCEPT !.scbg_pending_ts = old_pending_ts + (cpu_usage_shift * interactivity_delta)]>>

\* interactivity_score_calculate after _pending_ageout gave aged = <<pending intervals, group>>:
\* cpu_adjust, then the score from the CPU data, stored when the timestamp is newer.
interactivity_score_store(g2, timestamp) ==
  IF timestamp > g2.scbg_interactivity_ts
  THEN [g2 EXCEPT !.scbg_interactivity_score = interactivity_from_cpu_data(g2),
                  !.scbg_interactivity_ts = timestamp]
  ELSE g2

interactivity_score_aged(aged, timestamp) == interactivity_score_store(cpu_adjust(aged[2], aged[1]), timestamp)

\* The group afterwards; the method's result is its scbg_interactivity_score.
interactivity_score_calculate(g, bucket, timestamp, global_bucket_load) ==
  IF is_above_timeshare(bucket) THEN g
  ELSE interactivity_score_aged(pending_ageout(g, bucket, timestamp, global_bucket_load), timestamp)

pri_shift_update(g, bucket, current_tick, processor_count) ==
  IF is_above_timeshare(bucket) THEN g
  ELSE IF g.scbg_timeshare_tick < current_tick
  THEN LET run_count == Max(0, g.scbg_blocked_count - 1)
           load0 == IF processor_count > 0 THEN run_count \div processor_count ELSE run_count
           load == Min(load0, NRQS - 1)
           pri_shift == SCHED_FIXED_SHIFT - SCHED_LOAD_SHIFTS(load)
       IN [g EXCEPT !.scbg_timeshare_tick = current_tick,
                    !.scbg_pri_shift = IF pri_shift > SCHED_PRI_SHIFT_MAX THEN INT8_MAX ELSE pri_shift]
  ELSE g

(***************************************************************************)
(* The world record W holds every scheduler object:                        *)
(*   thr   thread id -> Thread fields                                      *)
(*   cbg   <<group, bucket>> -> SchedClutchBucketGroup                     *)
(*   cb    <<group, bucket>> -> SchedClutchBucket (one cluster)            *)
(*   sc    group -> sc_thr_count                                           *)
(*   root  the ClutchRoot, rt the RTQueue, proc the processors,            *)
(*   brq   processor -> bound runqueue, tick the scheduler's current_tick, *)
(*   err   whether a Python exception was raised inside the call.          *)
(* None is 0 for threads and processors, -1 for buckets, <<>> for clutch   *)
(* buckets.  The never-used bound root buckets of ClutchRoot are left out  *)
(* (scr_bound_runnable_bitmap stays 0).                                    *)
(***************************************************************************)
SchedClutchBucket_New ==
  [scb_priority |-> 0,
   scb_thr_count |-> 0,
   scb_root |-> FALSE,
   scb_thread_runq |-> PQ_New,
   scb_clutchpri_prioq |-> PQ_New,
   scb_timeshare_threads |-> <<>>]

ClutchRootBucket_New(bucket) ==
  [scrb_starvation_avoidance |-> FALSE,
   scrb_starvation_ts |-> 0,
   scrb_deadline |-> 0,
   scrb_warp_remaining |-> ROOT_BUCKET_WARP_US[bucket + 1],
   scrb_warped_deadline |-> SCHED_CLUTCH_INVALID_TIME_64,
   scrb_clutch_buckets |-> ClutchBucketRunqueue_New]

ClutchRoot_New ==
  [scr_priority |-> NOPRI,
   scr_thr_count |-> 0,
   scr_urgency |-> 0,
   scr_unbound_buckets |-> [b \in Buckets |-> ClutchRootBucket_New(b)],
   scr_unbound_root_prioq |-> PQ_New,
   scr_unbound_runnable_bitmap |-> {},
   scr_unbound_warp_available |-> {},
   scr_global_bucket_load |-> [b \in Buckets |-> 0],
   scr_clutch_buckets_list |-> <<>>]

\* SchedClutch.bucket_for_thread / bucket_group_for_thread: the key of both.
bucket_for_thread(W, t) == <<W.thr[t].tg, W.thr[t].th_sched_bucket>>

\* SchedClutchBucket.base_pri
scb_base_pri(cb) ==
  IF cb.scb_clutchpri_prioq.heap = {} THEN 0 ELSE PriorityQueueMax_max_priority(cb.scb_clutchpri_prioq)

\* SchedClutchBucket.pri_calculate: <<priority, world afterwards>>.
\* pri_calculate once interactivity_score_calculate has left the group as g.
pri_calculate_scored(W, c, g) ==
  <<Min(scb_base_pri(W.cb[c]) + g.scbg_interactivity_score, 255), [W EXCEPT !.cbg[c] = g]>>

pri_calculate(W, c, timestamp, global_bucket_load) ==
  IF W.cb[c].scb_thr_count = 0 THEN <<0, W>>
  ELSE pri_calculate_scored(W, c, interactivity_score_calculate(W.cbg[c], c[2], timestamp, global_bucket_load))

\* deadline_calculate with the worst-case execution latency of the DF bucket for every bucket.
deadline_calculate_with_one_wcel(bucket, timestamp) ==
  IF is_above_timeshare(bucket) THEN 0 ELSE timestamp + ROOT_BUCKET_WCEL_US[TH_BUCKET_SHARE_DF + 1]

deadline_calculate(bucket, timestamp) ==
  IF is_above_timeshare(bucket) THEN 0 ELSE timestamp + ROOT_BUCKET_WCEL_US[bucket + 1]

\* ClutchRootBucket.deadline_update on root bucket b.
deadline_update(W, b, timestamp) ==
  IF is_above_timeshare(b) THEN W
  ELSE [W EXCEPT !.root.scr_unbound_buckets[b].scrb_deadline = deadline_calculate(b, timestamp)]

\* PriorityQueueDeadlineMin.update_deadline of root bucket b: remove, insert.
\* update_deadline that leaves the bucket in the queue under the deadline it was inserted with.
prioq_update_deadline_keeping_key(W, b) == W

\* update_deadline that inserts the bucket under its new deadline and leaves the old entry.
prioq_update_deadline_without_remove(W, b) ==
  [W EXCEPT !.root.scr_unbound_root_prioq =
     PriorityQueueDeadlineMin_insert(@, b, W.root.scr_unbound_buckets[b].scrb_deadline)]

prioq_update_deadline(W, b) ==
  [W EXCEPT !.root.scr_unbound_root_prioq =
     PriorityQueueDeadlineMin_insert(PriorityQueueDeadlineMin_remove(@, b), b,
                                     W.root.scr_unbound_buckets[b].scrb_deadline)]

root_bucket_runnable(W, b, timestamp) ==
  LET W1 == [W EXCEPT !.root.scr_unbound_runnable_bitmap = @ \cup {b}]
      W2 == IF ~W1.root.scr_unbound_buckets[b].scrb_starvation_avoidance
            THEN [W1 EXCEPT !.root.scr_unbound_buckets[b].scrb_deadline = deadline_calculate(b, timestamp)]
            ELSE W1
      W3 == [W2 EXCEPT !.root.scr_unbound_root_prioq =
               PriorityQueueDeadlineMin_insert(@, b, W2.root.scr_unbound_buckets[b].scrb_deadline)]
  IN IF is_above_timeshare(b) THEN W1
     ELSE IF W3.root.scr_unbound_buckets[b].scrb_warp_remaining > 0
     THEN [W3 EXCEPT !.root.scr_unbound_warp_available = @ \cup {b}]
     ELSE W3

\* ClutchRootBucket.on_empty
on_empty(rb, bucket, timestamp) ==
  IF is_above_timeshare(bucket) THEN rb
  ELSE IF rb.scrb_warped_deadline # SCHED_CLUTCH_INVALID_TIME_64
  THEN [rb EXCEPT !.scrb_warp_remaining =
          IF rb.scrb_warped_deadline > timestamp THEN rb.scrb_warped_deadline - timestamp ELSE 0]
  ELSE rb

root_bucket_empty(W, b, timestamp) ==
  LET W1 == [W EXCEPT !.root.scr_unbound_runnable_bitmap = @ \ {b}]
  IN IF is_above_timeshare(b) THEN W1
     ELSE [W1 EXCEPT !.root.scr_unbound_root_prioq = PriorityQueueDeadlineMin_remove(@, b),
                     !.root.scr_unbound_warp_available = @ \ {b},
                     !.root.scr_unbound_buckets[b] = on_empty(@, b, timestamp)]

\* clutch_bucket_hierarchy_insert: the clutch bucket enqueued in its root bucket.
clutch_bucket_hierarchy_enqueued(W, c, bucket, options) ==
  [W EXCEPT !.root.scr_unbound_buckets[bucket].scrb_clutch_buckets =
              ClutchBucketRunqueue_enqueue(@, c, W.cb[c].scb_priority,
                                           SCHED_CLUTCH_BUCKET_OPTIONS_HEADQ \in options),
            !.cb[c].scb_root = TRUE,
            !.root.scr_clutch_buckets_list = Append(@, c),
            !.root.scr_global_bucket_load[bucket] = @ + 1,
            !.err = @ \/ W.cb[c].scb_priority < 0 \/ W.cb[c].scb_priority >= NRQS_MAX]

clutch_bucket_hierarchy_insert(W, c, bucket, timestamp, options) ==
  IF W.root.scr_unbound_buckets[bucket].scrb_clutch_buckets.count = 0
  THEN root_bucket_runnable(clutch_bucket_hierarchy_enqueued(W, c, bucket, options), bucket, timestamp)
  ELSE clutch_bucket_hierarchy_enqueued(W, c, bucket, options)

\* clutch_bucket_hierarchy_remove: the clutch bucket dequeued from its root bucket.
clutch_bucket_hierarchy_dequeued(W, c, bucket) ==
  [W EXCEPT !.root.scr_unbound_buckets[bucket].scrb_clutch_buckets =
              ClutchBucketRunqueue_dequeue(@, c, W.cb[c].scb_priority),
            !.cb[c].scb_root = FALSE,
            !.root.scr_clutch_buckets_list = SeqRemoveFirst(@, c),
            !.root.scr_global_bucket_load[bucket] = @ - 1,
            !.err = @ \/ ~SeqContains(CBRQ_queue(W.root.scr_unbound_buckets[bucket].scrb_clutch_buckets,
                                                 W.cb[c].scb_priority), c)]

\* clutch_bucket_hierarchy_remove, after the dequeue left W1: an emptied root bucket leaves the hierarchy.
root_bucket_empty_if_drained(W1, bucket, timestamp) ==
  IF W1.root.scr_unbound_buckets[bucket].scrb_clutch_buckets.count = 0
  THEN root_bucket_empty(W1, bucket, timestamp)
  ELSE W1

clutch_bucket_hierarchy_remove(W, c, bucket, timestamp, options) ==
  root_bucket_empty_if_drained(clutch_bucket_hierarchy_dequeued(W, c, bucket), bucket, timestamp)

\* (first_timeslice tie-break) scheduler.py _pri_greater_tiebreak
pri_greater_tiebreak(pri_one, pri_two, one_wins_ties) ==
  IF one_wins_ties THEN pri_one >= pri_two ELSE pri_one > pri_two

\* root_bucket_highest_clutch_bucket: <<clutch bucket, chose_prev>>; prev_thread 0 is None.
root_bucket_highest_clutch_bucket(W, b, prev_thread, first_timeslice) ==
  LET rq == W.root.scr_unbound_buckets[b].scrb_clutch_buckets
      clutch_bucket == ClutchBucketRunqueue_peek_highest(rq)
      prev_cb == bucket_for_thread(W, prev_thread)
      prev_clutch_bucket_pri == W.thr[prev_thread].sched_pri + W.cbg[prev_cb].scbg_interactivity_score
  IN IF rq.count = 0
     THEN IF prev_thread # 0 THEN <<prev_cb, TRUE>> ELSE <<<<>>, FALSE>>
     ELSE IF prev_thread # 0 /\ prev_cb # clutch_bucket
             /\ pri_greater_tiebreak(prev_clutch_bucket_pri, W.cb[clutch_bucket].scb_priority, first_timeslice)
     THEN <<prev_cb, TRUE>>
     ELSE <<clutch_bucket, FALSE>>

\* The first runnable, non-empty root bucket of lo .. hi, or -1.
FirstRunnableBucket(W, lo, hi) ==
  LET ok == {b \in lo .. hi : b \in W.root.scr_unbound_runnable_bitmap
                               /\ W.root.scr_unbound_buckets[b].scrb_clutch_buckets.count # 0}
  IN BitmapLowest(ok)

\* root_pri_update, the end: the priority of the highest clutch bucket of root bucket highest.
root_pri_of_clutch_bucket(W, highest, clutch_bucket) ==
  [W EXCEPT !.root.scr_priority =
     IF highest # -1 /\ clutch_bucket # <<>> /\ W.cb[clutch_bucket].scb_clutchpri_prioq.heap # {}
     THEN PriorityQueueMax_max_priority(W.cb[clutch_bucket].scb_clutchpri_prioq)
     ELSE NOPRI]

root_pri_of_bucket(W, highest) ==
  root_pri_of_clutch_bucket(W, highest, root_bucket_highest_clutch_bucket(W, highest, 0, TRUE)[1])

root_pri_update(W) ==
  LET bitmap == W.root.scr_unbound_runnable_bitmap
      rbs == W.root.scr_unbound_buckets
      PeekPri(b) == W.cb[ClutchBucketRunqueue_peek_highest(rbs[b].scrb_clutch_buckets)].scb_priority
      fix_ok == TH_BUCKET_FIXPRI \in bitmap /\ rbs[TH_BUCKET_FIXPRI].scrb_clutch_buckets.count # 0
      fg_ok == TH_BUCKET_SHARE_FG \in bitmap /\ rbs[TH_BUCKET_SHARE_FG].scrb_clutch_buckets.count # 0
      fg_wins == fg_ok /\ (~fix_ok \/ PeekPri(TH_BUCKET_SHARE_FG) > PeekPri(TH_BUCKET_FIXPRI))
      \* after the AboveUI comparison: FIXPRI, SHARE_FG or nothing
      first == IF fg_wins THEN TH_BUCKET_SHARE_FG ELSE IF fix_ok THEN TH_BUCKET_FIXPRI ELSE -1
      second == IF first # -1 /\ first # TH_BUCKET_FIXPRI
                THEN FirstRunnableBucket(W, TH_BUCKET_SHARE_FG, TH_BUCKET_SCHED_MAX - 1)
                ELSE first
  IN IF second = -1 THEN root_pri_of_bucket(W, FirstRunnableBucket(W, 0, TH_BUCKET_SCHED_MAX - 1))
     ELSE root_pri_of_bucket(W, second)

\* pc = <<priority, world>> of pri_calculate: the world with the priority stored in clutch bucket c.
with_scb_priority(pc, c) == [pc[2] EXCEPT !.cb[c].scb_priority = pc[1]]

clutch_bucket_runnable(W, c, timestamp, options) ==
  root_pri_update(
    [clutch_bucket_hierarchy_insert(
       with_scb_priority(pri_calculate(W, c, timestamp, W.root.scr_global_bucket_load[c[2]]), c),
       c, c[2], timestamp, options)
     EXCEPT !.cbg[c] = pri_shift_update(@, c[2], 0, 1)])

\* clutch_bucket_update once pri_calculate gave new_pri and left the world W1.
clutch_bucket_requeue(W1, c, new_pri, options) ==
  LET old_pri == W1.cb[c].scb_priority
      rq == W1.root.scr_unbound_buckets[c[2]].scrb_clutch_buckets
      head == SCHED_CLUTCH_BUCKET_OPTIONS_HEADQ \in options
  IN IF new_pri = old_pri
     THEN IF SCHED_CLUTCH_BUCKET_OPTIONS_SAMEPRI_RR \in options
          THEN [W1 EXCEPT !.root.scr_unbound_buckets[c[2]].scrb_clutch_buckets =
                             ClutchBucketRunqueue_rotate_at(@, old_pri)]
          ELSE W1
     ELSE root_pri_update(
            [W1 EXCEPT !.root.scr_unbound_buckets[c[2]].scrb_clutch_buckets =
                          ClutchBucketRunqueue_enqueue(ClutchBucketRunqueue_dequeue(@, c, old_pri),
                                                       c, new_pri, head),
                       !.cb[c].scb_priority = new_pri,
                       !.err = @ \/ ~SeqContains(CBRQ_queue(rq, old_pri), c)])

clutch_bucket_update_calculated(pc, c, options) == clutch_bucket_requeue(pc[2], c, pc[1], options)

clutch_bucket_update(W, c, timestamp, options) ==
  clutch_bucket_update_calculated(pri_calculate(W, c, timestamp, W.root.scr_global_bucket_load[c[2]]),
                                  c, options)

clutch_bucket_empty(W, c, timestamp, options) ==
  root_pri_update(
    [clutch_bucket_hierarchy_remove(W, c, c[2], timestamp, options)
     EXCEPT !.cbg[c] = pri_shift_update(@, c[2], 0, 1), !.cb[c].scb_priority = 0])

(***************************************************************************)
(* rt_queue.py: RTQueue.  _queues is a function defined on the band        *)
(* indexes (sched_pri - BASEPRI_RTQUEUES) whose list is non-empty; thr     *)
(* gives the fields of the queued threads.  _strict_priority is False and  *)
(* has no setter.                                                          *)
(***************************************************************************)
RT_DEADLINE_EPSILON == 100
RT_CONSTRAINT_NONE == 2147483646
RT_STRICT_PRIORITY == FALSE

RTQueue_New ==
  [queues |-> <<>>, count |-> 0, earliest_deadline |-> RT_DEADLINE_NONE,
   constraint |-> RT_CONSTRAINT_NONE, ed_index |-> -1]

RT_band(rt, idx) == IF idx \in DOMAIN rt.queues THEN rt.queues[idx] ELSE <<>>

RT_with(rt, idx, q) ==
  LET dom == IF q = <<>> THEN (DOMAIN rt.queues) \ {idx} ELSE (DOMAIN rt.queues) \cup {idx}
  IN [i \in dom |-> IF i = idx THEN q ELSE rt.queues[i]]

\* _refresh_global_ed: bands walked from the top, a strictly earlier head deadline wins.
refresh_global_ed(rt, thr) ==
  LET cand == {i \in DOMAIN rt.queues : thr[rt.queues[i][1]].rt_deadline < RT_DEADLINE_NONE}
      ed == IF cand = {} THEN -1
            ELSE CHOOSE i \in cand :
                   \A j \in cand \ {i} :
                      \/ thr[rt.queues[i][1]].rt_deadline < thr[rt.queues[j][1]].rt_deadline
                      \/ (thr[rt.queues[i][1]].rt_deadline = thr[rt.queues[j][1]].rt_deadline /\ i > j)
  IN [rt EXCEPT !.earliest_deadline = IF ed = -1 THEN RT_DEADLINE_NONE ELSE thr[rt.queues[ed][1]].rt_deadline,
                !.constraint = IF ed = -1 THEN RT_CONSTRAINT_NONE ELSE thr[rt.queues[ed][1]].rt_constraint,
                !.ed_index = ed]

highest_pri_index(rt) == BitmapHighest(DOMAIN rt.queues)

\* _choose_index_for_dequeue letting the override through when the sum equals the constraint.
choose_index_for_dequeue_inclusive(rt, thr) ==
  LET hi_index == highest_pri_index(rt)
      ed_thread == rt.queues[rt.ed_index][1]
      hi_thread == rt.queues[hi_index][1]
  IN IF hi_index < 0 THEN -1
     ELSE IF (~RT_STRICT_PRIORITY) /\ rt.ed_index >= 0 /\ rt.ed_index # hi_index
             /\ thr[ed_thread].rt_computation + thr[hi_thread].rt_computation + RT_DEADLINE_EPSILON
                  <= thr[hi_thread].rt_constraint
     THEN rt.ed_index
     ELSE hi_index

choose_index_for_dequeue(rt, thr) ==
  LET hi_index == highest_pri_index(rt)
      ed_thread == rt.queues[rt.ed_index][1]
      hi_thread == rt.queues[hi_index][1]
  IN IF hi_index < 0 THEN -1
     ELSE IF (~RT_STRICT_PRIORITY) /\ rt.ed_index >= 0 /\ rt.ed_index # hi_index
             /\ thr[ed_thread].rt_computation + thr[hi_thread].rt_computation + RT_DEADLINE_EPSILON
                  < thr[hi_thread].rt_constraint
     THEN rt.ed_index
     ELSE hi_index

\* The position before the first entry with a strictly later deadline (0-based), else the end.
RT_insert_pos(q, deadline, thr) ==
  LET later == {i \in 1 .. Len(q) : deadline < thr[q[i]].rt_deadline}
  IN IF later = {} THEN Len(q) ELSE (CHOOSE i \in later : \A j \in later : i <= j) - 1

RTQueue_enqueue(rt, thread, thr) ==
  LET idx == thr[thread].sched_pri - BASEPRI_RTQUEUES
      q == RT_band(rt, idx)
      pos == RT_insert_pos(q, thr[thread].rt_deadline, thr)
      nq == SubSeq(q, 1, pos) \o <<thread>> \o SubSeq(q, pos + 1, Len(q))
  IN refresh_global_ed([rt EXCEPT !.queues = RT_with(rt, idx, nq), !.count = @ + 1], thr)

\* dequeue: <<thread or 0, queue afterwards>>.
RTQueue_dequeue(rt, thr) ==
  LET idx == choose_index_for_dequeue(rt, thr)
  IN IF idx < 0 THEN <<0, rt>>
     ELSE <<rt.queues[idx][1],
            refresh_global_ed([rt EXCEPT !.queues = RT_with(rt, idx, Tail(rt.queues[idx])), !.count = @ - 1], thr)>>

RTQueue_peek(rt, thr) ==
  LET idx == choose_index_for_dequeue(rt, thr) IN IF idx < 0 THEN 0 ELSE rt.queues[idx][1]

RTQueue_peek_deadline(rt) == rt.earliest_deadline

RTQueue_highest_priority(rt) == IF highest_pri_index(rt) < 0 THEN -1 ELSE BASEPRI_RTQUEUES + highest_pri_index(rt)

RTQueue_remove(rt, thread, thr) ==
  LET pri == thr[thread].sched_pri
      idx == pri - BASEPRI_RTQUEUES
      q == RT_band(rt, idx)
  IN IF ~(BASEPRI_RTQUEUES <= pri /\ pri <= MAXPRI) THEN rt
     ELSE IF SeqContains(q, thread)
     THEN refresh_global_ed([rt EXCEPT !.queues = RT_with(rt, idx, SeqRemoveFirst(q, thread)), !.count = @ - 1], thr)
     ELSE rt

(***************************************************************************)
(* thread.py and timeshare.py                                              *)
(***************************************************************************)
convert_pri_to_bucket(pri) ==
  IF pri > BASEPRI_USER_INITIATED THEN TH_BUCKET_SHARE_FG
  ELSE IF pri > BASEPRI_DEFAULT THEN TH_BUCKET_SHARE_IN
  ELSE IF pri > BASEPRI_UTILITY THEN TH_BUCKET_SHARE_DF
  ELSE IF pri > MAXPRI_THROTTLE THEN TH_BUCKET_SHARE_UT
  ELSE TH_BUCKET_SHARE_BG

thread_bucket_map(sched_mode, base_pri) ==
  IF sched_mode = TH_MODE_REALTIME THEN TH_BUCKET_FIXPRI
  ELSE IF sched_mode = TH_MODE_FIXED /\ base_pri >= BASEPRI_FOREGROUND THEN TH_BUCKET_FIXPRI
  ELSE convert_pri_to_bucket(base_pri)

\* Thread._initial_quantum
initial_quantum(th) ==
  IF th.sched_mode = TH_MODE_REALTIME /\ th.rt_computation > 0 THEN th.rt_computation
  ELSE THREAD_QUANTUM_US[th.th_sched_bucket + 1]

\* Thread.__init__ for a thread of group tg, bound to processor bound (0: unbound).
Thread_New(tg, sched_mode, base_pri0, bound, rt_computation, rt_constraint) ==
  LET base_pri == IF sched_mode = TH_MODE_REALTIME /\ base_pri0 < BASEPRI_RTQUEUES
                  THEN BASEPRI_RTQUEUES ELSE base_pri0
      bucket == thread_bucket_map(sched_mode, base_pri)
      th == [tg |-> tg, sched_mode |-> sched_mode, base_pri |-> base_pri, sched_pri |-> base_pri,
             max_priority |-> IF sched_mode = TH_MODE_REALTIME THEN MAXPRI ELSE base_pri,
             th_sched_bucket |-> bucket, bound_processor |-> bound,
             cpu_usage |-> 0, sched_usage |-> 0, sched_stamp |-> 0, pri_shift |-> INT8_MAX,
             rt_computation |-> rt_computation, rt_constraint |-> rt_constraint,
             rt_deadline |-> RT_DEADLINE_NONE,
             quantum_remaining |-> 0, first_timeslice |-> TRUE,
             state |-> "WAITING", computation_epoch |-> 0]
  IN [th EXCEPT !.quantum_remaining = initial_quantum(th)]

reset_quantum(th) == [th EXCEPT !.quantum_remaining = initial_quantum(th), !.first_timeslice = TRUE]

is_realtime(th) == th.sched_mode = TH_MODE_REALTIME
is_timeshare(th) == th.sched_mode = TH_MODE_TIMESHARE

\* compute_sched_pri with the decay term left out.
compute_sched_pri_without_decay(th) == th.base_pri

compute_sched_pri(th) ==
  IF is_above_timeshare(th.th_sched_bucket) THEN th.base_pri
  ELSE IF th.bound_processor # 0 THEN th.base_pri
  ELSE IF th.pri_shift >= INT8_MAX THEN th.base_pri
  ELSE Max(MINPRI, Min(th.base_pri - Shr(th.sched_usage, th.pri_shift), th.max_priority))

\* update_thread_cpu_usage: the thread's part; the bucket group's part is cpu_usage_update.
update_thread_cpu_usage(th, delta_us) ==
  [th EXCEPT !.cpu_usage = @ + delta_us,
             !.sched_usage = IF th.pri_shift < INT8_MAX THEN @ + delta_us ELSE @]

AgeUsage(usage, ticks) ==
  LET shift1 == SCHED_DECAY_SHIFTS[ticks + 1][1]
      shift2 == SCHED_DECAY_SHIFTS[ticks + 1][2]
  IN IF shift2 > 0 THEN Shr(usage, shift1) + Shr(usage, shift2)
     ELSE Shr(usage, shift1) - Shr(usage, -shift2)

\* age_thread_cpu_usage applying the one-tick step whatever the number of ticks.
age_thread_cpu_usage_one_step(th, decay_factor) ==
  [th EXCEPT !.cpu_usage = AgeUsage(@, 1), !.sched_usage = AgeUsage(@, 1)]

age_thread_cpu_usage(th, decay_factor) ==
  LET ticks == Max(0, decay_factor)
  IN IF ticks >= SCHED_DECAY_TICKS THEN [th EXCEPT !.cpu_usage = 0, !.sched_usage = 0]
     ELSE [th EXCEPT !.cpu_usage = AgeUsage(@, ticks), !.sched_usage = AgeUsage(@, ticks)]

\* CPU accounting as every caller does it: the thread, then its bucket group unless bound.
charge_cpu(W, t, cpu_time) ==
  LET c == bucket_for_thread(W, t)
      W1 == [W EXCEPT !.thr[t] = update_thread_cpu_usage(@, cpu_time)]
  IN IF W.thr[t].bound_processor = 0
     THEN [W1 EXCEPT !.cbg[c] = cpu_usage_update(@, c[2], cpu_time)]
     ELSE W1

(***************************************************************************)
(* clutch_root.py: root-bucket selection.  A root bucket is its bucket     *)
(* index, None is -1.                                                      *)
(***************************************************************************)
\* Restarts of the EDF loop after which the translation gives up (the call is marked err).
MaxRestarts == 12

highest_runnable_qos(W) == BitmapLowest(W.root.scr_unbound_runnable_bitmap)

\* _select_aboveui: [some, bucket, chose_prev]; some = FALSE is None (EDF decides).
select_aboveui(W, prev_bucket, prev_thread, has_prev) ==
  LET bitmap == W.root.scr_unbound_runnable_bitmap
      rbs == W.root.scr_unbound_buckets
      fix_ok == TH_BUCKET_FIXPRI \in bitmap /\ rbs[TH_BUCKET_FIXPRI].scrb_clutch_buckets.count # 0
      fix_cb == ClutchBucketRunqueue_peek_highest(rbs[TH_BUCKET_FIXPRI].scrb_clutch_buckets)
      fg_ok == TH_BUCKET_SHARE_FG \in bitmap /\ rbs[TH_BUCKET_SHARE_FG].scrb_clutch_buckets.count # 0
      fg_cb == ClutchBucketRunqueue_peek_highest(rbs[TH_BUCKET_SHARE_FG].scrb_clutch_buckets)
      fg_wins == fg_ok /\ (~fix_ok \/ W.cb[fg_cb].scb_priority > W.cb[fix_cb].scb_priority)
      \* after the FIXPRI and SHARE_FG steps
      root1 == IF fg_wins THEN TH_BUCKET_SHARE_FG ELSE IF fix_ok THEN TH_BUCKET_FIXPRI ELSE -1
      cb1 == IF fg_wins THEN fg_cb ELSE IF fix_ok THEN fix_cb ELSE <<>>
      aboveui1 == fix_ok /\ ~fg_wins
      prev_clutch_bucket_pri ==
        W.thr[prev_thread].sched_pri + W.cbg[bucket_for_thread(W, prev_thread)].scbg_interactivity_score
      prev_should_win_ties == prev_bucket = TH_BUCKET_FIXPRI /\ ~aboveui1
      prev_wins == has_prev
                   /\ (cb1 = <<>> \/ pri_greater_tiebreak(prev_clutch_bucket_pri, W.cb[cb1].scb_priority,
                                                           prev_should_win_ties))
      higher_root_bucket == IF prev_wins THEN prev_bucket ELSE root1
      higher_is_aboveui == IF prev_wins THEN prev_bucket = TH_BUCKET_FIXPRI ELSE aboveui1
  IN IF higher_root_bucket = -1 \/ ~higher_is_aboveui
     THEN [some |-> FALSE, bucket |-> -1, chose_prev |-> FALSE]
     ELSE [some |-> TRUE, bucket |-> higher_root_bucket,
           chose_prev |-> has_prev /\ higher_root_bucket \notin bitmap]

\* _handle_edf_selection leaving the warp budget of the bucket as it finds it.
handle_edf_selection_without_warp_reset(W, edf_bucket, timestamp, prev_bucket, edf_bucket_enqueued_normally) ==
  LET hr0 == highest_runnable_qos(W)
      highest_runnable ==
        IF prev_bucket # -1 /\ ~is_above_timeshare(prev_bucket) /\ (hr0 = -1 \/ prev_bucket < hr0)
        THEN prev_bucket ELSE hr0
      W1 == deadline_update(W, edf_bucket, timestamp)
      W2 == IF edf_bucket_enqueued_normally THEN prioq_update_deadline(W1, edf_bucket) ELSE W1
  IN IF W.root.scr_unbound_buckets[edf_bucket].scrb_starvation_avoidance THEN W
     ELSE IF highest_runnable # -1 /\ highest_runnable < edf_bucket
     THEN [W EXCEPT !.root.scr_unbound_buckets[edf_bucket].scrb_starvation_avoidance = TRUE,
                    !.root.scr_unbound_buckets[edf_bucket].scrb_starvation_ts = timestamp]
     ELSE IF edf_bucket_enqueued_normally
     THEN [W2 EXCEPT !.root.scr_unbound_warp_available = @ \cup {edf_bucket}]
     ELSE W2

\* _handle_edf_selection: the world afterwards.
handle_edf_selection(W, edf_bucket, timestamp, prev_bucket, edf_bucket_enqueued_normally) ==
  LET hr0 == highest_runnable_qos(W)
      highest_runnable ==
        IF prev_bucket # -1 /\ ~is_above_timeshare(prev_bucket) /\ (hr0 = -1 \/ prev_bucket < hr0)
        THEN prev_bucket ELSE hr0
      W1 == deadline_update(W, edf_bucket, timestamp)
      W2 == IF edf_bucket_enqueued_normally THEN prioq_update_deadline(W1, edf_bucket) ELSE W1
      W3 == [W2 EXCEPT !.root.scr_unbound_buckets[edf_bucket].scrb_warp_remaining =
                          ROOT_BUCKET_WARP_US[edf_bucket + 1],
                       !.root.scr_unbound_buckets[edf_bucket].scrb_warped_deadline =
                          SCHED_CLUTCH_INVALID_TIME_64]
  IN IF W.root.scr_unbound_buckets[edf_bucket].scrb_starvation_avoidance THEN W
     ELSE IF highest_runnable # -1 /\ highest_runnable < edf_bucket
     THEN [W EXCEPT !.root.scr_unbound_buckets[edf_bucket].scrb_starvation_avoidance = TRUE,
                    !.root.scr_unbound_buckets[edf_bucket].scrb_starvation_ts = timestamp]
     ELSE IF edf_bucket_enqueued_normally
     THEN [W3 EXCEPT !.root.scr_unbound_warp_available = @ \cup {edf_bucket}]
     ELSE W3

\* The warp window of warp_bucket has expired, with its warp budget zeroed and nothing else.
warp_expired_keeping_bit(W, warp_bucket, prev_bucket_warping) ==
  [W EXCEPT !.root.scr_unbound_buckets[warp_bucket].scrb_warp_remaining = 0]

\* _evaluate_root_buckets, the warp window of warp_bucket has expired: its warp budget is zeroed
\* and, unless it is the bucket of prev_thread warping, its warp_available bit
\* is cleared.
warp_expired(W, warp_bucket, prev_bucket_warping) ==
  LET We0 == [W EXCEPT !.root.scr_unbound_buckets[warp_bucket].scrb_warp_remaining = 0]
  IN IF ~prev_bucket_warping
     THEN [We0 EXCEPT !.root.scr_unbound_warp_available = @ \ {warp_bucket}]
     ELSE We0

\* _evaluate_root_buckets: [w, bucket, chose_prev, restarts, how, keyed]; one recursion per
\* `continue`, restarts the number of them, how the branch that returned: "edf" for the EDF bucket
\* with no bucket warping past it, "warp" for a warping bucket, "prev" or "none" with nothing
\* enqueued; keyed tells whether every peek_min of the call found the EDF queue keyed by the
\* current scrb_deadline of enqueued timeshare buckets.
RECURSIVE evaluate_root_buckets(_, _, _, _, _)
evaluate_root_buckets(W, timestamp, prev_bucket, prev_thread, restarts) ==
  LET has_prev == prev_bucket # -1 /\ prev_thread # 0
      prev_in_edf == has_prev /\ ~is_above_timeshare(prev_bucket)
      rbs == W.root.scr_unbound_buckets
      peek == PriorityQueueDeadlineMin_peek_min(W.root.scr_unbound_root_prioq)
      prev_replaces == prev_in_edf /\ prev_bucket # peek
                       /\ rbs[prev_bucket].scrb_deadline < rbs[peek].scrb_deadline
      edf_bucket == IF prev_replaces THEN prev_bucket ELSE peek
      edf_bucket_enqueued_normally == ~prev_replaces
      starvation_over ==
        rbs[edf_bucket].scrb_starvation_avoidance
        /\ timestamp >= rbs[edf_bucket].scrb_starvation_ts + THREAD_QUANTUM_US[edf_bucket + 1]
      Ws0 == [W EXCEPT !.root.scr_unbound_buckets[edf_bucket].scrb_starvation_avoidance = FALSE,
                       !.root.scr_unbound_buckets[edf_bucket].scrb_starvation_ts = 0]
      Ws1 == deadline_update(Ws0, edf_bucket, timestamp)
      Ws == IF edf_bucket_enqueued_normally THEN prioq_update_deadline(Ws1, edf_bucket) ELSE Ws1
      warp_bucket_index == BitmapLowest(W.root.scr_unbound_warp_available)
      prev_bucket_warping ==
        prev_in_edf /\ prev_bucket # edf_bucket /\ rbs[prev_bucket].scrb_warp_remaining > 0
        /\ prev_bucket < edf_bucket
        /\ (warp_bucket_index = -1 \/ prev_bucket < warp_bucket_index)
      non_edf_can_warp == (warp_bucket_index # -1 /\ warp_bucket_index < edf_bucket) \/ prev_bucket_warping
      warp_bucket == IF prev_bucket_warping THEN prev_bucket ELSE warp_bucket_index
      \* warp unused: open the window
      Wu0 == [W EXCEPT !.root.scr_unbound_buckets[warp_bucket].scrb_warped_deadline =
                          timestamp + rbs[warp_bucket].scrb_warp_remaining]
      Wu1 == deadline_update(Wu0, warp_bucket, timestamp)
      Wu == IF ~prev_bucket_warping THEN prioq_update_deadline(Wu1, warp_bucket) ELSE Wu1
      \* warp window still open
      Wo1 == deadline_update(W, warp_bucket, timestamp)
      Wo == IF ~prev_bucket_warping THEN prioq_update_deadline(Wo1, warp_bucket) ELSE Wo1
      \* warp expired
      We == warp_expired(W, warp_bucket, prev_bucket_warping)
      \* what peek_min finds: every entry an enqueued timeshare bucket under its scrb_deadline
      keyed == \A e \in W.root.scr_unbound_root_prioq.heap :
                 /\ e.k = rbs[e.item].scrb_deadline
                 /\ e.item \in W.root.scr_unbound_runnable_bitmap
                 /\ ~is_above_timeshare(e.item)
  IN IF restarts >= MaxRestarts
     THEN [w |-> [W EXCEPT !.err = TRUE], bucket |-> -1, chose_prev |-> FALSE, restarts |-> restarts,
           how |-> "none", keyed |-> keyed]
     ELSE IF peek = -1
     THEN IF prev_in_edf
          THEN [w |-> W, bucket |-> prev_bucket, chose_prev |-> TRUE, restarts |-> restarts, how |-> "prev", keyed |-> keyed]
          ELSE [w |-> W, bucket |-> -1, chose_prev |-> FALSE, restarts |-> restarts, how |-> "none", keyed |-> keyed]
     ELSE IF starvation_over
     THEN [evaluate_root_buckets(Ws, timestamp, prev_bucket, prev_thread, restarts + 1)
             EXCEPT !.keyed = @ /\ keyed]
     ELSE IF ~non_edf_can_warp
     THEN [w |-> handle_edf_selection(W, edf_bucket, timestamp, prev_bucket, edf_bucket_enqueued_normally),
           bucket |-> edf_bucket, chose_prev |-> ~edf_bucket_enqueued_normally, restarts |-> restarts,
           how |-> "edf", keyed |-> keyed]
     ELSE IF rbs[warp_bucket].scrb_warped_deadline = SCHED_CLUTCH_INVALID_TIME_64
     THEN [w |-> Wu, bucket |-> warp_bucket, chose_prev |-> prev_bucket_warping, restarts |-> restarts,
           how |-> "warp", keyed |-> keyed]
     ELSE IF rbs[warp_bucket].scrb_warped_deadline > timestamp
     THEN [w |-> Wo, bucket |-> warp_bucket, chose_prev |-> prev_bucket_warping, restarts |-> restarts,
           how |-> "warp", keyed |-> keyed]
     ELSE [evaluate_root_buckets(We, timestamp, prev_bucket, prev_thread, restarts + 1)
             EXCEPT !.keyed = @ /\ keyed]

\* highest_root_bucket once _select_aboveui gave aboveui_result: its bucket, or the EDF evaluation.
aboveui_or_edf(W, timestamp, prev_bucket, prev_thread, aboveui_result) ==
  IF aboveui_result.some
  THEN [w |-> W, bucket |-> aboveui_result.bucket, chose_prev |-> aboveui_result.chose_prev,
        restarts |-> 0, how |-> "aboveui", keyed |-> TRUE]
  ELSE evaluate_root_buckets(W, timestamp, prev_bucket, prev_thread, 0)

\* highest_root_bucket: [w, bucket, chose_prev, restarts, how, keyed].
highest_root_bucket(W, timestamp, prev_bucket, prev_thread) ==
  LET highest_runnable == highest_runnable_qos(W)
      has_prev == prev_bucket # -1 /\ prev_thread # 0
      fixpri_runnable == TH_BUCKET_FIXPRI \in W.root.scr_unbound_runnable_bitmap
      prev_is_fixpri == has_prev /\ prev_bucket = TH_BUCKET_FIXPRI
  IN IF highest_runnable = -1 /\ ~has_prev
     THEN [w |-> W, bucket |-> -1, chose_prev |-> FALSE, restarts |-> 0, how |-> "none", keyed |-> TRUE]
     ELSE IF highest_runnable = -1 /\ has_prev
     THEN [w |-> W, bucket |-> prev_bucket, chose_prev |-> TRUE, restarts |-> 0, how |-> "prev", keyed |-> TRUE]
     ELSE IF fixpri_runnable \/ prev_is_fixpri
     THEN aboveui_or_edf(W, timestamp, prev_bucket, prev_thread,
                         select_aboveui(W, prev_bucket, prev_thread, has_prev))
     ELSE evaluate_root_buckets(W, timestamp, prev_bucket, prev_thread, 0)

\* hierarchy_thread_highest once root_bucket_highest_clutch_bucket gave hcb = <<clutch bucket, chose_prev>>.
thread_of_clutch_bucket(W1, root_bucket, prev_thread, first_timeslice, hcb) ==
  LET clutch_bucket == hcb[1]
      thread == StablePriorityQueue_peek_max(W1.cb[clutch_bucket].scb_thread_runq)
  IN IF clutch_bucket = <<>>
     THEN [w |-> W1, thread |-> 0, root_bucket |-> root_bucket, chose_prev |-> FALSE]
     ELSE IF hcb[2]
     THEN [w |-> W1, thread |-> prev_thread, root_bucket |-> root_bucket, chose_prev |-> TRUE]
     ELSE IF prev_thread # 0 /\ thread # 0 /\ bucket_for_thread(W1, prev_thread) = clutch_bucket
             /\ pri_greater_tiebreak(W1.thr[prev_thread].sched_pri, W1.thr[thread].sched_pri, first_timeslice)
     THEN [w |-> W1, thread |-> prev_thread, root_bucket |-> root_bucket, chose_prev |-> TRUE]
     ELSE [w |-> W1, thread |-> thread, root_bucket |-> root_bucket, chose_prev |-> FALSE]

\* hierarchy_thread_highest once highest_root_bucket gave hrb = [w, bucket, chose_prev].
thread_of_root_bucket(hrb, prev_bucket, prev_thread0, first_timeslice) ==
  LET W1 == hrb.w
      root_bucket == hrb.bucket
      prev_thread == IF root_bucket # prev_bucket THEN 0 ELSE prev_thread0
  IN IF root_bucket = -1 THEN [w |-> W1, thread |-> 0, root_bucket |-> -1, chose_prev |-> FALSE]
     ELSE IF hrb.chose_prev
     THEN [w |-> W1, thread |-> prev_thread0, root_bucket |-> root_bucket, chose_prev |-> TRUE]
     ELSE thread_of_clutch_bucket(W1, root_bucket, prev_thread, first_timeslice,
            root_bucket_highest_clutch_bucket(W1, root_bucket, prev_thread, first_timeslice))

\* hierarchy_thread_highest: [w, thread, root_bucket, chose_prev].
hierarchy_thread_highest(W, timestamp, prev_thread0, first_timeslice) ==
  LET prev_bucket == IF prev_thread0 # 0 /\ ~is_realtime(W.thr[prev_thread0])
                     THEN W.thr[prev_thread0].th_sched_bucket ELSE -1
  IN thread_of_root_bucket(highest_root_bucket(W, timestamp, prev_bucket, prev_thread0),
                           prev_bucket, prev_thread0, first_timeslice)

(***************************************************************************)
(* processor.py                                                            *)
(***************************************************************************)
Processor_New ==
  [state |-> "IDLE", active_thread |-> 0, current_pri |-> -1, quantum_end |-> 0,
   first_timeslice |-> FALSE, starting_pri |-> -1, last_dispatch_time |-> 0]

\* Processor.is_idle
is_idle(pr) == pr.state = "IDLE" \/ pr.active_thread = 0

\* ProcessorSet.find_idle_processor: the first idle processor, or 0.
find_idle_processor(W) ==
  LET idle == {p \in DOMAIN W.proc : is_idle(W.proc[p])}
  IN IF idle = {} THEN 0 ELSE CHOOSE p \in idle : \A q \in idle : p <= q

\* ProcessorSet.find_lowest_priority_processor: the first busy processor of least current_pri, or 0.
find_lowest_priority_processor(W) ==
  LET busy == {p \in DOMAIN W.proc : W.proc[p].active_thread # 0}
  IN IF busy = {} THEN 0
     ELSE CHOOSE p \in busy :
            \A q \in busy \ {p} :
               \/ W.proc[p].current_pri < W.proc[q].current_pri
               \/ (W.proc[p].current_pri = W.proc[q].current_pri /\ p < q)

(***************************************************************************)
(* scheduler.py: the facade.  Operators take the world and give the world  *)
(* afterwards, with the method's result where it has one.                  *)
(***************************************************************************)
\* thread.sched_pri = compute_sched_pri(thread, cbg)
with_sched_pri(th) == [th EXCEPT !.sched_pri = compute_sched_pri(th)]

\* _timeshare_setrun_update, lines 144-153: age, stamp, take the group's shift, recompute.
timeshare_recompute(W, t) ==
  LET th == W.thr[t]
      elapsed_ticks == Max(0, W.tick - th.sched_stamp)
  IN [W EXCEPT !.thr[t] =
        with_sched_pri([age_thread_cpu_usage(th, elapsed_ticks) EXCEPT
                          !.sched_stamp = W.tick,
                          !.pri_shift = IF th.bound_processor # 0 THEN INT8_MAX
                                        ELSE W.cbg[bucket_for_thread(W, t)].scbg_pri_shift])]

\* _timeshare_setrun_update without the early return on zero elapsed ticks.
timeshare_setrun_update_every_time(W, t) == timeshare_recompute(W, t)

timeshare_setrun_update(W, t) ==
  IF Max(0, W.tick - W.thr[t].sched_stamp) = 0 THEN W ELSE timeshare_recompute(W, t)

\* The RT comparison of _check_preemption against the thread active on processor p.
rt_preempts(W, new_thread, p) ==
  LET active == W.proc[p].active_thread
      n == W.thr[new_thread]
  IN \/ ~is_realtime(W.thr[active])
     \/ n.sched_pri > W.thr[active].sched_pri
     \/ (n.sched_pri = W.thr[active].sched_pri
         /\ n.rt_deadline + RT_DEADLINE_EPSILON < W.thr[active].rt_deadline)

\* _check_preemption with preemption allowed whatever the options and the priority.
check_preemption_always_allowed(W, new_thread, options) ==
  LET n == W.thr[new_thread]
      explicit_preempt == SCHED_PREEMPT \in options
      preempt_allowed == TRUE
      target == n.bound_processor
      active == W.proc[target].active_thread
      idle_proc == find_idle_processor(W)
      rt_targets == {p \in DOMAIN W.proc : W.proc[p].active_thread = 0 \/ rt_preempts(W, new_thread, p)}
      lowest_proc == find_lowest_priority_processor(W)
      equal_targets == {p \in DOMAIN W.proc :
                          /\ W.proc[p].active_thread # 0
                          /\ ~is_realtime(W.thr[W.proc[p].active_thread])
                          /\ W.proc[p].current_pri = n.sched_pri
                          /\ explicit_preempt}
  IN IF target # 0
     THEN IF active = 0 THEN target
          ELSE IF is_realtime(n) THEN (IF rt_preempts(W, new_thread, target) THEN target ELSE 0)
          ELSE IF preempt_allowed /\ n.sched_pri > W.thr[active].sched_pri THEN target
          ELSE IF preempt_allowed /\ n.sched_pri = W.thr[active].sched_pri /\ explicit_preempt THEN target
          ELSE 0
     ELSE IF idle_proc # 0 THEN idle_proc
     ELSE IF is_realtime(n)
     THEN (IF rt_targets = {} THEN 0 ELSE CHOOSE p \in rt_targets : \A q \in rt_targets : p <= q)
     ELSE IF preempt_allowed /\ lowest_proc # 0 /\ n.sched_pri > W.proc[lowest_proc].current_pri
     THEN lowest_proc
     ELSE IF preempt_allowed /\ equal_targets # {}
     THEN CHOOSE p \in equal_targets : \A q \in equal_targets : p <= q
     ELSE 0

\* _check_preemption with an equal-priority target whenever preemption is allowed.
check_preemption_equal_when_allowed(W, new_thread, options) ==
  LET n == W.thr[new_thread]
      explicit_preempt == SCHED_PREEMPT \in options
      preempt_allowed == explicit_preempt \/ n.sched_pri >= BASEPRI_PREEMPT
      target == n.bound_processor
      active == W.proc[target].active_thread
      idle_proc == find_idle_processor(W)
      rt_targets == {p \in DOMAIN W.proc : W.proc[p].active_thread = 0 \/ rt_preempts(W, new_thread, p)}
      lowest_proc == find_lowest_priority_processor(W)
      equal_targets == {p \in DOMAIN W.proc :
                          /\ W.proc[p].active_thread # 0
                          /\ ~is_realtime(W.thr[W.proc[p].active_thread])
                          /\ W.proc[p].current_pri = n.sched_pri}
  IN IF target # 0
     THEN IF active = 0 THEN target
          ELSE IF is_realtime(n) THEN (IF rt_preempts(W, new_thread, target) THEN target ELSE 0)
          ELSE IF preempt_allowed /\ n.sched_pri > W.thr[active].sched_pri THEN target
          ELSE IF preempt_allowed /\ n.sched_pri = W.thr[active].sched_pri /\ explicit_preempt THEN target
          ELSE 0
     ELSE IF idle_proc # 0 THEN idle_proc
     ELSE IF is_realtime(n)
     THEN (IF rt_targets = {} THEN 0 ELSE CHOOSE p \in rt_targets : \A q \in rt_targets : p <= q)
     ELSE IF preempt_allowed /\ lowest_proc # 0 /\ n.sched_pri > W.proc[lowest_proc].current_pri
     THEN lowest_proc
     ELSE IF preempt_allowed /\ equal_targets # {}
     THEN CHOOSE p \in equal_targets : \A q \in equal_targets : p <= q
     ELSE 0

\* _check_preemption: the processor to preempt, or 0.
check_preemption(W, new_thread, options) ==
  LET n == W.thr[new_thread]
      explicit_preempt == SCHED_PREEMPT \in options
      preempt_allowed == explicit_preempt \/ n.sched_pri >= BASEPRI_PREEMPT
      target == n.bound_processor
      active == W.proc[target].active_thread
      idle_proc == find_idle_processor(W)
      rt_targets == {p \in DOMAIN W.proc : W.proc[p].active_thread = 0 \/ rt_preempts(W, new_thread, p)}
      lowest_proc == find_lowest_priority_processor(W)
      equal_targets == {p \in DOMAIN W.proc :
                          /\ W.proc[p].active_thread # 0
                          /\ ~is_realtime(W.thr[W.proc[p].active_thread])
                          /\ W.proc[p].current_pri = n.sched_pri
                          /\ explicit_preempt}
  IN IF target # 0
     THEN IF active = 0 THEN target
          ELSE IF is_realtime(n) THEN (IF rt_preempts(W, new_thread, target) THEN target ELSE 0)
          ELSE IF preempt_allowed /\ n.sched_pri > W.thr[active].sched_pri THEN target
          ELSE IF preempt_allowed /\ n.sched_pri = W.thr[active].sched_pri /\ explicit_preempt THEN target
          ELSE 0
     ELSE IF idle_proc # 0 THEN idle_proc
     ELSE IF is_realtime(n)
     THEN (IF rt_targets = {} THEN 0 ELSE CHOOSE p \in rt_targets : \A q \in rt_targets : p <= q)
     ELSE IF preempt_allowed /\ lowest_proc # 0 /\ n.sched_pri > W.proc[lowest_proc].current_pri
     THEN lowest_proc
     ELSE IF preempt_allowed /\ equal_targets # {}
     THEN CHOOSE p \in equal_targets : \A q \in equal_targets : p <= q
     ELSE 0

\* The end of the three setrun paths: <<self._check_preemption(thread, options), world>>.
setrun_result(W, t, options) == <<check_preemption(W, t, options), W>>

\* _rt_thread_setrun: a thread without a deadline gets timestamp + rt_constraint.
rt_deadline_assigned(W, t, timestamp) ==
  IF W.thr[t].rt_deadline = RT_DEADLINE_NONE
  THEN [W EXCEPT !.thr[t].rt_deadline = timestamp + W.thr[t].rt_constraint]
  ELSE W

\* _rt_thread_setrun: self.rt_runq.enqueue(thread); a priority outside the RT bands raises.
rt_enqueued(W, t) ==
  [W EXCEPT !.rt = RTQueue_enqueue(@, t, W.thr),
            !.err = @ \/ ~(BASEPRI_RTQUEUES <= W.thr[t].sched_pri /\ W.thr[t].sched_pri <= MAXPRI)]

\* _rt_thread_setrun: <<processor, world>>.
rt_thread_setrun(W, t, timestamp) ==
  setrun_result(rt_enqueued(rt_deadline_assigned(W, t, timestamp), t), t, {SCHED_PREEMPT})

\* _clutch_thread_setrun, up to the insertion in the clutch bucket's queues: the counts and the thread
\* runqueue.
clutch_thread_inserted(W, t, timestamp, options, became_runnable) ==
  LET c == bucket_for_thread(W, t)
      th == W.thr[t]
      preempted == SCHED_TAILQ \notin options
  IN [W EXCEPT
        !.cbg[c] = thr_count_inc(IF became_runnable THEN run_count_inc(@, timestamp) ELSE @, timestamp),
        !.sc[c[1]] = @ + 1,
        !.cb[c].scb_thread_runq = StablePriorityQueue_insert(@, t, th.sched_pri, preempted, timestamp),
        !.cb[c].scb_clutchpri_prioq = PriorityQueueMax_insert(@, t, th.base_pri),
        !.cb[c].scb_timeshare_threads = Append(@, t),
        !.cb[c].scb_thr_count = @ + 1,
        !.root.scr_urgency = IF th.sched_pri >= BASEPRI_RTQUEUES THEN @ + 1 ELSE @,
        !.root.scr_thr_count = @ + 1]

\* _clutch_thread_setrun, the hierarchy: W1 is the world after the insertion, was_empty whether the
\* clutch bucket held no thread before it.
clutch_bucket_runnable_or_update(W1, c, timestamp, options, was_empty) ==
  LET scb_options == IF SCHED_HEADQ \in options THEN {SCHED_CLUTCH_BUCKET_OPTIONS_HEADQ}
                     ELSE {SCHED_CLUTCH_BUCKET_OPTIONS_TAILQ}
  IN IF was_empty THEN clutch_bucket_runnable(W1, c, timestamp, scb_options)
     ELSE clutch_bucket_update(W1, c, timestamp, scb_options)

\* _clutch_thread_setrun: <<processor, world>>.
clutch_thread_setrun(W, t, timestamp, options, became_runnable) ==
  setrun_result(
    clutch_bucket_runnable_or_update(clutch_thread_inserted(W, t, timestamp, options, became_runnable),
                                     bucket_for_thread(W, t), timestamp, options,
                                     W.cb[bucket_for_thread(W, t)].scb_thr_count = 0),
    t, options)

\* _bound_thread_setrun: <<processor, world>>.
bound_thread_setrun(W, t, timestamp, options) ==
  setrun_result(
    [W EXCEPT !.brq[W.thr[t].bound_processor] =
       StablePriorityQueue_insert(@, t, W.thr[t].sched_pri, SCHED_TAILQ \notin options, timestamp)],
    t, options)

\* thread_setrun: if thread.is_timeshare: self._timeshare_setrun_update(thread).
setrun_update(W, t) == IF is_timeshare(W.thr[t]) THEN timeshare_setrun_update(W, t) ELSE W

\* thread_setrun: the enqueue by kind of thread, became_runnable being what old_state gave.
setrun_enqueue(W, t, timestamp, options, became_runnable) ==
  IF is_realtime(W.thr[t]) THEN rt_thread_setrun(W, t, timestamp)
  ELSE IF W.thr[t].bound_processor # 0 THEN bound_thread_setrun(W, t, timestamp, options)
  ELSE clutch_thread_setrun(W, t, timestamp, options, became_runnable)

\* thread_setrun counting every enqueue as a thread that became runnable.
thread_setrun_counts_every_enqueue(W, t, timestamp, options) ==
  setrun_enqueue(setrun_update([W EXCEPT !.thr[t].state = "RUNNABLE"], t), t, timestamp, options, TRUE)

\* thread_setrun: <<processor to signal or 0, world>>.
thread_setrun(W, t, timestamp, options) ==
  setrun_enqueue(setrun_update([W EXCEPT !.thr[t].state = "RUNNABLE"], t), t, timestamp, options,
                 W.thr[t].state \notin {"RUNNABLE", "RUNNING"})

\* thread_remove of a clutch thread: the thread taken out of its clutch bucket's queues and counts.
clutch_thread_removed(W, t, timestamp) ==
  LET th == W.thr[t]
      c == bucket_for_thread(W, t)
  IN [W EXCEPT
        !.root.scr_urgency = IF th.sched_pri >= BASEPRI_RTQUEUES THEN @ - 1 ELSE @,
        !.cb[c].scb_thread_runq = StablePriorityQueue_remove(@, t),
        !.cb[c].scb_timeshare_threads = SeqRemoveFirst(@, t),
        !.cb[c].scb_clutchpri_prioq = PriorityQueueMax_remove(@, t),
        !.sc[c[1]] = @ - 1,
        !.cbg[c] = thr_count_dec(@, timestamp),
        !.root.scr_thr_count = @ - 1,
        !.cb[c].scb_thr_count = @ - 1]

\* thread_remove, the hierarchy: W1 is the world after the removal from clutch bucket c.
clutch_bucket_empty_or_update(W1, c, timestamp) ==
  IF W1.cb[c].scb_thr_count = 0
  THEN clutch_bucket_empty(W1, c, timestamp, {SCHED_CLUTCH_BUCKET_OPTIONS_SAMEPRI_RR})
  ELSE clutch_bucket_update(W1, c, timestamp, {SCHED_CLUTCH_BUCKET_OPTIONS_SAMEPRI_RR})

\* thread_remove leaving the clutch bucket's thr_count as it was, as if a thread taken out to run
\* still counted.
thread_remove_keeping_thr_count(W, t, timestamp) ==
  LET th == W.thr[t]
      c == bucket_for_thread(W, t)
  IN IF is_realtime(th) THEN [W EXCEPT !.rt = RTQueue_remove(@, t, W.thr)]
     ELSE IF th.bound_processor # 0
     THEN [W EXCEPT !.brq[th.bound_processor] = StablePriorityQueue_remove(@, t)]
     ELSE IF ~W.cb[c].scb_root THEN W
     ELSE clutch_bucket_empty_or_update(
            [clutch_thread_removed(W, t, timestamp) EXCEPT !.cb[c].scb_thr_count = @ + 1], c, timestamp)

\* thread_remove: the world afterwards.
thread_remove(W, t, timestamp) ==
  LET th == W.thr[t]
      c == bucket_for_thread(W, t)
  IN IF is_realtime(th) THEN [W EXCEPT !.rt = RTQueue_remove(@, t, W.thr)]
     ELSE IF th.bound_processor # 0
     THEN [W EXCEPT !.brq[th.bound_processor] = StablePriorityQueue_remove(@, t)]
     ELSE IF ~W.cb[c].scb_root THEN W
     ELSE clutch_bucket_empty_or_update(clutch_thread_removed(W, t, timestamp), c, timestamp)

\* _rt_prev_thread_can_continue without the earliest-deadline test of its last line: a top band
\* not above prev_thread's priority always lets it continue.
rt_prev_thread_can_continue_without_deadline_test(W, p, prev_thread) ==
  LET rt_highest_pri == RTQueue_highest_priority(W.rt)
      hi_thread == W.rt.queues[highest_pri_index(W.rt)][1]
  IN IF W.rt.count = 0 THEN TRUE
     ELSE IF ~W.proc[p].first_timeslice THEN FALSE
     ELSE IF rt_highest_pri < BASEPRI_RTQUEUES THEN TRUE
     ELSE IF rt_highest_pri > W.thr[prev_thread].sched_pri
     THEN IF RT_STRICT_PRIORITY THEN FALSE
          ELSE ~(W.thr[prev_thread].rt_computation + W.thr[hi_thread].rt_computation + RT_DEADLINE_EPSILON
                   >= W.thr[hi_thread].rt_constraint)
     ELSE TRUE

\* _rt_prev_thread_can_continue on processor p.
rt_prev_thread_can_continue(W, p, prev_thread) ==
  LET rt_highest_pri == RTQueue_highest_priority(W.rt)
      hi_thread == W.rt.queues[highest_pri_index(W.rt)][1]
  IN IF W.rt.count = 0 THEN TRUE
     ELSE IF ~W.proc[p].first_timeslice THEN FALSE
     ELSE IF rt_highest_pri < BASEPRI_RTQUEUES THEN TRUE
     ELSE IF rt_highest_pri > W.thr[prev_thread].sched_pri
     THEN IF RT_STRICT_PRIORITY THEN FALSE
          ELSE ~(W.thr[prev_thread].rt_computation + W.thr[hi_thread].rt_computation + RT_DEADLINE_EPSILON
                   >= W.thr[hi_thread].rt_constraint)
     ELSE RTQueue_peek_deadline(W.rt) + RT_DEADLINE_EPSILON >= W.thr[prev_thread].rt_deadline

\* thread_select: the result when nothing else is chosen, prev_thread if there is one.
select_fallback(V, prev_thread) ==
  IF prev_thread # 0 THEN [w |-> V, thread |-> prev_thread, chose_prev |-> TRUE]
  ELSE [w |-> V, thread |-> 0, chose_prev |-> FALSE]

\* thread_select: dq = <<thread, queue>> of self.rt_runq.dequeue().
select_rt_dequeued(W, dq) == [w |-> [W EXCEPT !.rt = dq[2]], thread |-> dq[1], chose_prev |-> FALSE]

\* thread_select, the Clutch branch once hierarchy_thread_highest gave hth: a thread chosen from the
\* hierarchy is removed from it unless it is prev_thread.
select_clutch(hth, prev_thread, timestamp) ==
  IF hth.thread # 0
  THEN IF hth.chose_prev THEN [w |-> hth.w, thread |-> hth.thread, chose_prev |-> TRUE]
       ELSE [w |-> thread_remove(hth.w, hth.thread, timestamp), thread |-> hth.thread,
             chose_prev |-> FALSE]
  ELSE select_fallback(hth.w, prev_thread)

\* thread_select without the rule that an enqueued RT thread beats the non-RT candidates.
thread_select_without_rt_first(W, p, timestamp, prev_thread) ==
  LET rt_thread == RTQueue_peek(W.rt, W.thr)
      prev_result == [w |-> W, thread |-> prev_thread, chose_prev |-> TRUE]
      bound_runq == W.brq[p]
      bound_thread == StablePriorityQueue_peek_max(bound_runq)
      bound_pri0 == IF bound_thread # 0 THEN W.thr[bound_thread].sched_pri ELSE NOPRI
      prev_is_bound == prev_thread # 0 /\ W.thr[prev_thread].bound_processor = p
      bound_pri == IF prev_thread # 0 /\ prev_is_bound THEN Max(bound_pri0, W.thr[prev_thread].sched_pri)
                   ELSE bound_pri0
      clutch_pri == IF prev_thread # 0 /\ ~prev_is_bound
                    THEN Max(W.root.scr_priority, W.thr[prev_thread].sched_pri)
                    ELSE W.root.scr_priority
      prev_for_clutch == IF prev_thread # 0 /\ W.thr[prev_thread].bound_processor = 0 THEN prev_thread ELSE 0
  IN IF prev_thread # 0 /\ is_realtime(W.thr[prev_thread])
     THEN IF rt_prev_thread_can_continue(W, p, prev_thread) THEN prev_result
          ELSE IF rt_thread # 0 THEN select_rt_dequeued(W, RTQueue_dequeue(W.rt, W.thr))
          ELSE prev_result
     ELSE IF clutch_pri > bound_pri
     THEN IF W.root.scr_thr_count = 0 THEN select_fallback(W, prev_thread)
          ELSE select_clutch(hierarchy_thread_highest(W, timestamp, prev_for_clutch, W.proc[p].first_timeslice),
                             prev_thread, timestamp)
     ELSE IF bound_runq.heap = {}
             \/ (prev_is_bound /\ pri_greater_tiebreak(W.thr[prev_thread].sched_pri, bound_pri,
                                                       W.proc[p].first_timeslice))
     THEN select_fallback(W, prev_thread)
     ELSE IF bound_thread # 0
     THEN [w |-> [W EXCEPT !.brq[p].heap = @ \ {SPQ_Head(bound_runq)}], thread |-> bound_thread,
           chose_prev |-> FALSE]
     ELSE select_fallback(W, prev_thread)

\* thread_select for processor p: [w, thread, chose_prev]; prev_thread 0 is None.
thread_select(W, p, timestamp, prev_thread) ==
  LET rt_thread == RTQueue_peek(W.rt, W.thr)
      prev_result == [w |-> W, thread |-> prev_thread, chose_prev |-> TRUE]
      bound_runq == W.brq[p]
      bound_thread == StablePriorityQueue_peek_max(bound_runq)
      bound_pri0 == IF bound_thread # 0 THEN W.thr[bound_thread].sched_pri ELSE NOPRI
      prev_is_bound == prev_thread # 0 /\ W.thr[prev_thread].bound_processor = p
      bound_pri == IF prev_thread # 0 /\ prev_is_bound THEN Max(bound_pri0, W.thr[prev_thread].sched_pri)
                   ELSE bound_pri0
      clutch_pri == IF prev_thread # 0 /\ ~prev_is_bound
                    THEN Max(W.root.scr_priority, W.thr[prev_thread].sched_pri)
                    ELSE W.root.scr_priority
      prev_for_clutch == IF prev_thread # 0 /\ W.thr[prev_thread].bound_processor = 0 THEN prev_thread ELSE 0
  IN IF prev_thread # 0 /\ is_realtime(W.thr[prev_thread])
     THEN IF rt_prev_thread_can_continue(W, p, prev_thread) THEN prev_result
          ELSE IF rt_thread # 0 THEN select_rt_dequeued(W, RTQueue_dequeue(W.rt, W.thr))
          ELSE prev_result
     ELSE IF rt_thread # 0 THEN select_rt_dequeued(W, RTQueue_dequeue(W.rt, W.thr))
     ELSE IF clutch_pri > bound_pri
     THEN IF W.root.scr_thr_count = 0 THEN select_fallback(W, prev_thread)
          ELSE select_clutch(hierarchy_thread_highest(W, timestamp, prev_for_clutch, W.proc[p].first_timeslice),
                             prev_thread, timestamp)
     ELSE IF bound_runq.heap = {}
             \/ (prev_is_bound /\ pri_greater_tiebreak(W.thr[prev_thread].sched_pri, bound_pri,
                                                       W.proc[p].first_timeslice))
     THEN select_fallback(W, prev_thread)
     ELSE IF bound_thread # 0
     THEN [w |-> [W EXCEPT !.brq[p].heap = @ \ {SPQ_Head(bound_runq)}], thread |-> bound_thread,
           chose_prev |-> FALSE]
     ELSE select_fallback(W, prev_thread)

\* The accounting block shared by thread_dispatch, thread_quantum_expire, thread_block and the drivers'
\* preemption.
account_cpu(W, t, timestamp) ==
  IF W.thr[t].computation_epoch > 0
  THEN [charge_cpu(W, t, timestamp - W.thr[t].computation_epoch) EXCEPT !.thr[t].computation_epoch = 0]
  ELSE W

\* thread_dispatch: the new thread RUNNING from timestamp on, a spent quantum reset.
dispatched_thread(th, timestamp) ==
  IF th.quantum_remaining <= 0
  THEN reset_quantum([th EXCEPT !.state = "RUNNING", !.computation_epoch = timestamp])
  ELSE [th EXCEPT !.state = "RUNNING", !.computation_epoch = timestamp]

\* thread_dispatch from the accounting of old_thread on: new_thread is put on processor p.
dispatch_new_thread(W1, p, new_thread, timestamp) ==
  LET n == dispatched_thread(W1.thr[new_thread], timestamp)
  IN [W1 EXCEPT !.thr[new_thread] = n,
                !.proc[p] = [@ EXCEPT !.active_thread = new_thread,
                                      !.current_pri = n.sched_pri,
                                      !.state = "RUNNING",
                                      !.first_timeslice = n.first_timeslice,
                                      !.starting_pri = n.sched_pri,
                                      !.last_dispatch_time = timestamp]]

\* thread_dispatch on processor p; old_thread 0 is None.
thread_dispatch(W, p, old_thread, new_thread, timestamp) ==
  IF old_thread # 0 /\ old_thread # new_thread
  THEN dispatch_new_thread(account_cpu(W, old_thread, timestamp), p, new_thread, timestamp)
  ELSE dispatch_new_thread(W, p, new_thread, timestamp)

\* thread_quantum_expire: the thread whose quantum is spent, RUNNABLE again.
quantum_expired_thread(W, old_thread) ==
  [W EXCEPT !.thr[old_thread] =
     [@ EXCEPT !.first_timeslice = FALSE,
               !.quantum_remaining = 0,
               !.rt_deadline = IF is_realtime(W.thr[old_thread]) THEN RT_DEADLINE_QUANTUM_EXPIRED ELSE @,
               !.state = "RUNNABLE"]]

\* thread_quantum_expire once thread_select gave sel, the expired thread never enqueued again.
quantum_expire_selected_without_reenqueue(sel, p, old_thread, timestamp) ==
  IF sel.thread # 0 /\ sel.thread # old_thread
  THEN [w |-> thread_dispatch(sel.w, p, old_thread, sel.thread, timestamp), ret |-> sel.thread]
  ELSE [w |-> thread_dispatch(sel.w, p, old_thread, old_thread, timestamp), ret |-> old_thread]

\* thread_quantum_expire once thread_select gave sel: old_thread goes on, or is enqueued again and
\* the selected thread dispatched.
quantum_expire_selected(sel, p, old_thread, timestamp) ==
  IF sel.chose_prev /\ sel.thread = old_thread
  THEN [w |-> thread_dispatch(sel.w, p, old_thread, old_thread, timestamp), ret |-> old_thread]
  ELSE IF sel.thread # 0
  THEN [w |-> thread_dispatch(thread_setrun(sel.w, old_thread, timestamp, {SCHED_TAILQ})[2],
                              p, old_thread, sel.thread, timestamp),
        ret |-> sel.thread]
  ELSE [w |-> thread_dispatch(sel.w, p, old_thread, old_thread, timestamp), ret |-> old_thread]

\* thread_quantum_expire on processor p: [w, ret].
thread_quantum_expire(W, p, timestamp) ==
  LET old_thread == W.proc[p].active_thread
  IN IF old_thread = 0 THEN [w |-> W, ret |-> 0]
     ELSE quantum_expire_selected(
            thread_select(
              quantum_expired_thread(setrun_update(account_cpu(W, old_thread, timestamp), old_thread),
                                     old_thread),
              p, timestamp, old_thread),
            p, old_thread, timestamp)

\* thread_block after the accounting, the thread's quantum left as it was.
blocked_thread_keeping_quantum(W1, t, c, timestamp) ==
  [W1 EXCEPT !.thr[t].state = "WAITING",
             !.cbg[c] = IF ~is_realtime(W1.thr[t]) /\ W1.thr[t].bound_processor = 0
                        THEN run_count_dec(@, timestamp) ELSE @]

\* thread_block after the accounting: the thread WAITING without quantum, its group's run count
\* decremented unless it is realtime or bound.
blocked_thread(W1, t, c, timestamp) ==
  [W1 EXCEPT !.thr[t].quantum_remaining = 0,
             !.thr[t].state = "WAITING",
             !.cbg[c] = IF ~is_realtime(W1.thr[t]) /\ W1.thr[t].bound_processor = 0
                        THEN run_count_dec(@, timestamp) ELSE @]

\* thread_block once thread_select gave sel: the selected thread dispatched, or the processor idle.
block_selected(sel, p, t, timestamp) ==
  IF sel.thread # 0
  THEN [w |-> thread_dispatch(sel.w, p, t, sel.thread, timestamp), ret |-> sel.thread]
  ELSE [w |-> [sel.w EXCEPT !.proc[p] = [@ EXCEPT !.active_thread = 0, !.current_pri = NOPRI,
                                                  !.state = "IDLE"]],
        ret |-> 0]

\* thread_block of thread t on processor p: [w, ret].  The method checks nothing about t or p.
thread_block(W, t, p, timestamp) ==
  block_selected(
    thread_select(blocked_thread(account_cpu(W, t, timestamp), t, bucket_for_thread(W, t), timestamp),
                  p, timestamp, 0),
    p, t, timestamp)

\* thread_wakeup: a realtime thread's deadline is set to timestamp + rt_constraint.
wakeup_deadline(W, t, timestamp) ==
  IF is_realtime(W.thr[t])
  THEN [W EXCEPT !.thr[t].rt_deadline = timestamp + W.thr[t].rt_constraint]
  ELSE W

\* thread_wakeup: sr = <<processor, world>> of thread_setrun.
wakeup_result(sr) == [w |-> sr[2], ret |-> sr[1]]

\* thread_wakeup with its test of the thread's state left out.
thread_wakeup_any_state(W, t, timestamp) ==
  wakeup_result(thread_setrun(wakeup_deadline(W, t, timestamp), t, timestamp, {SCHED_PREEMPT, SCHED_TAILQ}))

\* thread_wakeup: [w, ret], ret the processor to signal or 0.
thread_wakeup(W, t, timestamp) ==
  IF W.thr[t].state # "WAITING" THEN [w |-> W, ret |-> 0]
  ELSE wakeup_result(thread_setrun(wakeup_deadline(W, t, timestamp), t, timestamp,
                                   {SCHED_PREEMPT, SCHED_TAILQ}))

\* sched_tick, first loop: pri_shift_update of the group of every listed clutch bucket.
RECURSIVE tick_pri_shifts(_, _, _)
tick_pri_shifts(W, list, i) ==
  IF i > Len(list) THEN W
  ELSE tick_pri_shifts([W EXCEPT !.cbg[list[i]] = pri_shift_update(@, list[i][2], W.tick, Cardinality(DOMAIN W.proc))],
                       list, i + 1)

\* sched_tick, a timeshare thread aged by one tick and given its group's pri_shift.
tick_aged_thread(th, tick, pri_shift) ==
  [age_thread_cpu_usage(th, 1) EXCEPT !.sched_stamp = tick, !.pri_shift = pri_shift]

\* sched_tick: does the aged thread th1 get another sched_pri than it had?
tick_reprioritized(th1) == compute_sched_pri(th1) # th1.sched_pri

\* sched_tick, the loop over cb.scb_timeshare_threads: [w, reprioritized].
RECURSIVE tick_age_threads(_, _, _, _, _)
tick_age_threads(W, c, threads, i, reprioritized) ==
  IF i > Len(threads) THEN [w |-> W, reprioritized |-> reprioritized]
  ELSE IF is_timeshare(W.thr[threads[i]])
  THEN tick_age_threads(
         [W EXCEPT !.thr[threads[i]] = with_sched_pri(tick_aged_thread(@, W.tick, W.cbg[c].scbg_pri_shift))],
         c, threads, i + 1,
         reprioritized \/ tick_reprioritized(tick_aged_thread(W.thr[threads[i]], W.tick, W.cbg[c].scbg_pri_shift)))
  ELSE tick_age_threads(W, c, threads, i + 1, reprioritized)

\* sched_tick, second loop, the run queue of clutch bucket c left as it is.
tick_refresh_never(aged, c) == aged.w

\* sched_tick, second loop: the run queue of clutch bucket c is refreshed if a thread's priority changed.
tick_refresh(aged, c) ==
  IF aged.reprioritized
  THEN [aged.w EXCEPT !.cb[c].scb_thread_runq =
          StablePriorityQueue_refresh_priorities(@, [t \in DOMAIN aged.w.thr |-> aged.w.thr[t].sched_pri])]
  ELSE aged.w

\* sched_tick, second loop: a clutch bucket that is in the hierarchy is updated.
tick_bucket_update(W1, c, timestamp) ==
  IF W1.cb[c].scb_root
  THEN clutch_bucket_update(W1, c, timestamp, {SCHED_CLUTCH_BUCKET_OPTIONS_NONE})
  ELSE W1

\* sched_tick, second loop over scr_clutch_buckets_list.
RECURSIVE tick_clutch_buckets(_, _, _, _)
tick_clutch_buckets(W, list, i, timestamp) ==
  IF i > Len(list) THEN W
  ELSE tick_clutch_buckets(
         tick_bucket_update(
           tick_refresh(tick_age_threads(W, list[i], W.cb[list[i]].scb_timeshare_threads, 1, FALSE), list[i]),
           list[i], timestamp),
         list, i + 1, timestamp)

\* sched_tick from the increment of current_tick on.
sched_tick_loops(W1, list, timestamp) ==
  tick_clutch_buckets(tick_pri_shifts(W1, list, 1), list, 1, timestamp)

sched_tick(W, timestamp) ==
  sched_tick_loops([W EXCEPT !.tick = @ + 1], W.root.scr_clutch_buckets_list, timestamp)

(***************************************************************************)
(* simulator/engine.py: the event handlers of SimulationEngine, the driver *)
(* of the facade.  The event queue is not modelled: a handler may run      *)
(* whenever its own checks let it act, at the current clock.               *)
(***************************************************************************)
\* _schedule_quantum_expire setting quantum_end to the quantum itself, not to the time it ends.
schedule_quantum_expire_without_clock(W, p, t, now) ==
  LET th == IF W.thr[t].quantum_remaining <= 0 THEN reset_quantum(W.thr[t]) ELSE W.thr[t]
  IN [W EXCEPT !.thr[t] = th, !.proc[p].quantum_end = th.quantum_remaining]

\* _schedule_quantum_expire: a spent quantum is reset, the processor's quantum_end is set.
schedule_quantum_expire(W, p, t, now) ==
  LET th == IF W.thr[t].quantum_remaining <= 0 THEN reset_quantum(W.thr[t]) ELSE W.thr[t]
  IN [W EXCEPT !.thr[t] = th, !.proc[p].quantum_end = now + th.quantum_remaining]

\* _try_dispatch_idle once thread_select gave sel.
dispatch_idle_selected(sel, p, now) ==
  IF sel.thread # 0
  THEN schedule_quantum_expire(thread_dispatch(sel.w, p, 0, sel.thread, now), p, sel.thread, now)
  ELSE sel.w

\* _try_dispatch_idle
try_dispatch_idle(W, p, now) == dispatch_idle_selected(thread_select(W, p, now, 0), p, now)

\* _handle_preemption after the accounting, the preempted thread's quantum never kept.
preempted_thread_without_quantum(W1, p, old_thread, now) ==
  [W1 EXCEPT !.thr[old_thread] =
     [@ EXCEPT !.quantum_remaining = 0,
               !.rt_deadline = IF is_realtime(W1.thr[old_thread]) THEN RT_DEADLINE_QUANTUM_EXPIRED ELSE @,
               !.state = "RUNNABLE"]]

\* _handle_preemption after the accounting: the preempted thread RUNNABLE, its quantum kept only
\* in its first timeslice at a priority not below the one it started with.
preempted_thread(W1, p, old_thread, now) ==
  LET keep_quantum == W1.proc[p].first_timeslice /\ W1.proc[p].starting_pri <= W1.thr[old_thread].sched_pri
      quantum == IF keep_quantum
                 THEN Max(0, W1.thr[old_thread].quantum_remaining - (now - W1.proc[p].last_dispatch_time))
                 ELSE 0
  IN [W1 EXCEPT !.thr[old_thread] =
        [@ EXCEPT !.quantum_remaining = quantum,
                  !.rt_deadline = IF is_realtime(W1.thr[old_thread]) /\ quantum = 0
                                  THEN RT_DEADLINE_QUANTUM_EXPIRED ELSE @,
                  !.state = "RUNNABLE"]]

\* _handle_preemption once thread_select gave sel.
preemption_selected(sel, p, old_thread, now) ==
  IF sel.chose_prev /\ sel.thread = old_thread
  THEN schedule_quantum_expire(thread_dispatch(sel.w, p, old_thread, old_thread, now), p, old_thread, now)
  ELSE IF sel.thread # 0
  THEN schedule_quantum_expire(
         thread_dispatch(thread_setrun(sel.w, old_thread, now, {SCHED_HEADQ})[2], p, old_thread, sel.thread, now),
         p, sel.thread, now)
  ELSE schedule_quantum_expire(thread_dispatch(sel.w, p, old_thread, old_thread, now), p, old_thread, now)

\* _handle_preemption of processor p.
handle_preemption(W, p, now) ==
  IF is_idle(W.proc[p]) THEN try_dispatch_idle(W, p, now)
  ELSE preemption_selected(
         thread_select(
           setrun_update(preempted_thread(account_cpu(W, W.proc[p].active_thread, now), p,
                                          W.proc[p].active_thread, now),
                         W.proc[p].active_thread),
           p, now, W.proc[p].active_thread),
         p, W.proc[p].active_thread, now)

\* _handle_thread_wakeup once thread_wakeup gave wk: the processor it named is preempted.
wakeup_preemption(wk, now) ==
  [w |-> IF wk.ret # 0 THEN handle_preemption(wk.w, wk.ret, now) ELSE wk.w, ret |-> wk.ret]

\* _handle_thread_wakeup: [w, ret], ret what thread_wakeup returned.
handle_thread_wakeup(W, t, now) ==
  IF W.thr[t].state = "TERMINATED" THEN [w |-> W, ret |-> 0]
  ELSE wakeup_preemption(thread_wakeup(W, t, now), now)

\* _find_processor_for_thread
find_processor_for_thread(W, t) ==
  LET on == {p \in DOMAIN W.proc : W.proc[p].active_thread = t}
  IN IF on = {} THEN 0 ELSE CHOOSE p \in on : \A q \in on : p <= q

\* _handle_thread_block once thread_block gave blk on processor p.
block_rescheduled(blk, p, now) ==
  [w |-> IF blk.ret # 0 THEN schedule_quantum_expire(blk.w, p, blk.ret, now)
         ELSE try_dispatch_idle(blk.w, p, now),
   ret |-> blk.ret]

\* _handle_thread_block of a RUNNING thread: [w, ret], ret what thread_block returned.
handle_thread_block(W, t, now) ==
  IF W.thr[t].state # "RUNNING" \/ find_processor_for_thread(W, t) = 0 THEN [w |-> W, ret |-> 0]
  ELSE block_rescheduled(thread_block(W, t, find_processor_for_thread(W, t), now),
                         find_processor_for_thread(W, t), now)

\* _handle_quantum_expire once thread_quantum_expire gave qe on processor p.
quantum_expire_rescheduled(qe, p, now) ==
  [w |-> schedule_quantum_expire(qe.w, p, qe.w.proc[p].active_thread, now), ret |-> qe.ret]

\* _handle_quantum_expire of processor p: [w, ret], ret what thread_quantum_expire returned.
handle_quantum_expire(W, p, now) ==
  IF W.proc[p].active_thread = 0 THEN [w |-> W, ret |-> 0]
  ELSE quantum_expire_rescheduled(thread_quantum_expire(W, p, now), p, now)

\* _handle_rt_period_start: the thread's deadline is set to now + rt_constraint.
rt_period_deadline(W, t, now) == [W EXCEPT !.thr[t].rt_deadline = now + W.thr[t].rt_constraint]

\* _handle_rt_period_start: [w, ret], ret what thread_setrun returned.
handle_rt_period_start(W, t, now) ==
  IF W.thr[t].state = "TERMINATED" THEN [w |-> W, ret |-> 0]
  ELSE IF W.thr[t].state = "WAITING"
  THEN wakeup_preemption(
         wakeup_result(thread_setrun(rt_period_deadline(W, t, now), t, now, {SCHED_PREEMPT, SCHED_TAILQ})),
         now)
  ELSE [w |-> rt_period_deadline(W, t, now), ret |-> 0]

(***************************************************************************)
(* simulator/engine.py, simulator/events.py: the event queue.  The queue   *)
(* is the sequence of the pending events in the order they were scheduled  *)
(* (the order of Event._seq); D = [q, dl] is the driver's bookkeeping, the *)
(* event queue and the block deadline recorded for each thread (-1: none). *)
(* A handler gives [w, d, ret, op]: the world, the bookkeeping, what the   *)
(* core returned and the core operation it called.                         *)
(***************************************************************************)
EVENT_PRIORITY(event_type) ==
  CASE event_type = "THREAD_WAKEUP" -> 1
    [] event_type = "QUANTUM_EXPIRE" -> 4
    [] event_type = "THREAD_BLOCK" -> 5

Event(timestamp, event_type, thread_id, processor_id) ==
  [timestamp |-> timestamp, event_type |-> event_type, thread_id |-> thread_id, processor_id |-> processor_id]

\* Event.__lt__ (dataclass order): by timestamp, then priority, then _seq; i and j are positions in q.
event_before(q, i, j) ==
  \/ q[i].timestamp < q[j].timestamp
  \/ /\ q[i].timestamp = q[j].timestamp
     /\ \/ EVENT_PRIORITY(q[i].event_type) < EVENT_PRIORITY(q[j].event_type)
        \/ EVENT_PRIORITY(q[i].event_type) = EVENT_PRIORITY(q[j].event_type) /\ i < j

\* The position of the event heapq.heappop takes.
heap_first(q) == CHOOSE i \in DOMAIN q : \A j \in DOMAIN q \ {i} : event_before(q, i, j)

\* The queue after heapq.heappop.
heap_rest(q) == [k \in 1 .. Len(q) - 1 |-> IF k < heap_first(q) THEN q[k] ELSE q[k + 1]]

\* schedule_event
schedule_event(D, event) == [D EXCEPT !.q = Append(@, event)]

\* The event _schedule_quantum_expire pushes once it has set processor p's quantum_end.
quantum_expire_event(W, p) == Event(W.proc[p].quantum_end, "QUANTUM_EXPIRE", W.proc[p].active_thread, p)

\* _schedule_thread_block with the CPU burst sampled: nothing for a realtime thread.
schedule_thread_block(D, W, t, now, burst) ==
  IF is_realtime(W.thr[t]) THEN D
  ELSE schedule_event([D EXCEPT !.dl[t] = now + burst], Event(now + burst, "THREAD_BLOCK", t, 0))

\* What _try_dispatch_idle and _handle_preemption schedule on processor p, where old_thread ran:
\* the quantum expiry of the thread now running, and its block unless it is the one that ran before.
dispatch_events(D, W1, p, old_thread, now, burst) ==
  IF W1.proc[p].active_thread = 0 THEN D
  ELSE IF W1.proc[p].active_thread = old_thread THEN schedule_event(D, quantum_expire_event(W1, p))
  ELSE schedule_thread_block(schedule_event(D, quantum_expire_event(W1, p)), W1,
                             W1.proc[p].active_thread, now, burst)

\* _handle_thread_wakeup with the events it schedules, r what handle_thread_wakeup gave.
wakeup_events(r, D, W, now, burst) ==
  [w |-> r.w,
   d |-> IF r.ret = 0 THEN D
         ELSE dispatch_events(D, r.w, r.ret,
                              IF is_idle(W.proc[r.ret]) THEN 0 ELSE W.proc[r.ret].active_thread, now, burst),
   ret |-> r.ret, op |-> "thread_wakeup"]

event_thread_wakeup(W, D, event, now, burst) ==
  IF W.thr[event.thread_id].state = "TERMINATED"
  THEN [w |-> W, d |-> D, ret |-> 0, op |-> "thread_wakeup_discarded"]
  ELSE wakeup_events(handle_thread_wakeup(W, event.thread_id, now), D, W, now, burst)

\* A voluntary block event is stale when a deadline is recorded for its thread and is not its own.
block_event_stale(D, event) ==
  D.dl[event.thread_id] # -1 /\ event.timestamp # D.dl[event.thread_id]

\* _handle_thread_block from the call of thread_block on: r what handle_thread_block gave, the
\* thread's next wakeup scheduled after the sampled block duration.
block_events(r, D2, W, t, p, now, burst, block_duration) ==
  [w |-> r.w,
   d |-> IF is_realtime(W.thr[t]) THEN dispatch_events(D2, r.w, p, 0, now, burst)
         ELSE schedule_event(dispatch_events(D2, r.w, p, 0, now, burst),
                             Event(now + block_duration, "THREAD_WAKEUP", t, 0)),
   ret |-> r.ret, op |-> "thread_block"]

event_thread_block(W, D, event, now, burst, block_duration) ==
  IF block_event_stale(D, event)
  THEN [w |-> W, d |-> D, ret |-> 0, op |-> "thread_block_discarded"]
  ELSE IF W.thr[event.thread_id].state # "RUNNING"
  THEN [w |-> W, d |-> [D EXCEPT !.dl[event.thread_id] = -1], ret |-> 0, op |-> "thread_block_off_core"]
  ELSE IF find_processor_for_thread(W, event.thread_id) = 0
  THEN [w |-> W, d |-> D, ret |-> 0, op |-> "thread_block_off_core"]
  ELSE block_events(handle_thread_block(W, event.thread_id, now), [D EXCEPT !.dl[event.thread_id] = -1], W,
                    event.thread_id, find_processor_for_thread(W, event.thread_id), now, burst,
                    block_duration)

\* A quantum-expire event is current when its thread is the one running on its processor and its
\* time is the processor's quantum_end.
quantum_expire_event_current_by_thread(W, event) ==
  /\ W.proc[event.processor_id].active_thread # 0
  /\ W.proc[event.processor_id].active_thread = event.thread_id

quantum_expire_event_current(W, event) ==
  /\ W.proc[event.processor_id].active_thread # 0
  /\ W.proc[event.processor_id].active_thread = event.thread_id
  /\ event.timestamp = W.proc[event.processor_id].quantum_end

\* _handle_quantum_expire with the events it schedules, r what handle_quantum_expire gave: the
\* thread that ran gets a block event when another thread took the processor.
quantum_expire_events(r, D, p, old_thread, now, burst) ==
  [w |-> r.w,
   d |-> IF r.ret # 0 /\ r.ret # old_thread
         THEN schedule_thread_block(schedule_event(D, quantum_expire_event(r.w, p)), r.w, old_thread, now, burst)
         ELSE IF r.w.proc[p].active_thread # 0 THEN schedule_event(D, quantum_expire_event(r.w, p))
         ELSE D,
   ret |-> r.ret, op |-> "thread_quantum_expire"]

event_quantum_expire(W, D, event, now, burst) ==
  IF ~quantum_expire_event_current(W, event)
  THEN [w |-> W, d |-> D, ret |-> 0, op |-> "quantum_expire_discarded"]
  ELSE quantum_expire_events(handle_quantum_expire(W, event.processor_id, now), D, event.processor_id,
                             W.proc[event.processor_id].active_thread, now, burst)

(***************************************************************************)
(* The state machine.  The world's parts are the variables; clock is the   *)
(* driver's clock, call records the last call made (operation, arguments,  *)
(* result, and the state the thread was in before) and calls is the number *)
(* of calls the driver has yet to make.                                    *)
(***************************************************************************)
VARIABLES threads, bucket_groups, clutch_buckets, clutches, clutch_root, rt_runq, processors,
          bound_runqs, current_tick, failed, clock, call, calls,
          event_queue, thread_block_deadlines, tasks_by_id, last_tick_us, now_log

vars == <<threads, bucket_groups, clutch_buckets, clutches, clutch_root, rt_runq, processors,
          bound_runqs, current_tick, failed, clock, call, calls,
          event_queue, thread_block_deadlines, tasks_by_id, last_tick_us, now_log>>

\* SimulationEngine.event_queue and SimulationEngine._thread_block_deadlines.
event_vars == <<event_queue, thread_block_deadlines>>

\* HumanTaskScheduler.tasks_by_id (the ids of the tasks created) and _last_tick_us; now_log is the
\* `now` of the last core call before the latest operation, followed by those the operation passed.
runtime_vars == <<tasks_by_id, last_tick_us, now_log>>

\* The scheduler objects, without the driver's bookkeeping.
sched_vars == <<threads, bucket_groups, clutch_buckets, clutches, clutch_root, rt_runq, processors,
                bound_runqs, current_tick, failed>>

\* Bounds of the exploration.
MaxCalls == 5
MaxTick == 2
SmallDelta == 1000
\* A stretch of CPU time long enough for sched_usage >> pri_shift to be non-zero at pri_shift 30,
\* even after one aging step (5/8): the drivers charge whatever time has passed.
BigDelta == 1800000000
\* The instants at which the driver makes its calls.
ClockTimes == <<0, SmallDelta, SmallDelta + BigDelta>>

RtComputation == 1000
RtConstraint == 5000

\* The populations: threads as built by Thread.__init__, with the number of processors.
\* Three timeshare threads of one group and one bucket on one processor, two at BASEPRI_DEFAULT
\* and one a priority below.
PopulationTimeshare ==
  [ncpu |-> 1,
   thr |-> [t \in 1 .. 3 |->
              Thread_New(1, TH_MODE_TIMESHARE, IF t = 3 THEN BASEPRI_DEFAULT - 1 ELSE BASEPRI_DEFAULT, 0, 0, 0)]]

\* A realtime thread, a foreground timeshare thread and a thread bound to processor 1, on two processors.
PopulationMixed ==
  [ncpu |-> 2,
   thr |-> <<Thread_New(1, TH_MODE_REALTIME, BASEPRI_RTQUEUES, 0, RtComputation, RtConstraint),
             Thread_New(1, TH_MODE_TIMESHARE, BASEPRI_FOREGROUND, 0, 0, 0),
             Thread_New(2, TH_MODE_TIMESHARE, BASEPRI_DEFAULT, 1, 0, 0)>>]

Populations == {PopulationTimeshare, PopulationMixed}

Threads == DOMAIN threads
Processors == DOMAIN processors
Groups(population) == {population.thr[t].tg : t \in DOMAIN population.thr}

World ==
  [thr |-> threads, cbg |-> bucket_groups, cb |-> clutch_buckets, sc |-> clutches, root |-> clutch_root,
   rt |-> rt_runq, proc |-> processors, brq |-> bound_runqs, tick |-> current_tick, err |-> failed]

Commit(W) ==
  /\ threads' = W.thr
  /\ bucket_groups' = W.cbg
  /\ clutch_buckets' = W.cb
  /\ clutches' = W.sc
  /\ clutch_root' = W.root
  /\ rt_runq' = W.rt
  /\ processors' = W.proc
  /\ bound_runqs' = W.brq
  /\ current_tick' = W.tick
  /\ failed' = W.err

\* Scheduler.__init__, ProcessorSet.__init__, SchedClutch.__init__ of every thread group.
NewWorld(population) ==
  [thr |-> population.thr,
   cbg |-> [c \in Groups(population) \X Buckets |-> SchedClutchBucketGroup_New],
   cb |-> [c \in Groups(population) \X Buckets |-> SchedClutchBucket_New],
   sc |-> [g \in Groups(population) |-> 0],
   root |-> ClutchRoot_New,
   rt |-> RTQueue_New,
   proc |-> [p \in 1 .. population.ncpu |-> Processor_New],
   brq |-> [p \in 1 .. population.ncpu |-> PQ_New],
   tick |-> 0,
   err |-> FALSE]

\* The driver starts on world W at clock 0 with budget calls to make, the events of queue pending
\* and the block deadlines of deadlines recorded.
InitEngine(W, budget, queue, deadlines) ==
  /\ event_queue = queue
  /\ thread_block_deadlines = deadlines
  /\ tasks_by_id = {}
  /\ last_tick_us = 0
  /\ now_log = <<>>
  /\ threads = W.thr
  /\ bucket_groups = W.cbg
  /\ clutch_buckets = W.cb
  /\ clutches = W.sc
  /\ clutch_root = W.root
  /\ rt_runq = W.rt
  /\ processors = W.proc
  /\ bound_runqs = W.brq
  /\ current_tick = W.tick
  /\ failed = W.err
  /\ clock = 0
  /\ call = [op |-> "init", thread |-> 0, processor |-> 0, ret |-> 0, pre |-> "NONE"]
  /\ calls = budget

\* A driver that keeps no event queue.
InitWorld(W, budget) == InitEngine(W, budget, <<>>, <<>>)

InitPopulation(population, budget) == InitWorld(NewWorld(population), budget)

Init == \E population \in Populations : InitPopulation(population, MaxCalls)

CanCall == ~failed /\ calls > 0

Called(op, t, p, ret) ==
  /\ call' = [op |-> op, thread |-> t, processor |-> p, ret |-> ret,
              pre |-> IF t = 0 THEN "NONE" ELSE threads[t].state]
  /\ calls' = calls - 1
  /\ UNCHANGED <<clock, event_vars, runtime_vars>>

\* The state after a call: r = [w, ret] is what the operation gave.
CommitCall(r, op, t, p) == Commit(r.w) /\ Called(op, t, p, r.ret)

HandleThreadWakeup(t) ==
  /\ CanCall
  /\ CommitCall(handle_thread_wakeup(World, t, clock), "thread_wakeup", t, 0)

HandleThreadBlock(t) ==
  /\ CanCall
  /\ threads[t].state = "RUNNING"
  /\ find_processor_for_thread(World, t) # 0
  /\ CommitCall(handle_thread_block(World, t, clock), "thread_block", t, find_processor_for_thread(World, t))

HandleQuantumExpire(p) ==
  /\ CanCall
  /\ processors[p].active_thread # 0
  /\ CommitCall(handle_quantum_expire(World, p, clock), "thread_quantum_expire", processors[p].active_thread, p)

HandleSchedTick ==
  /\ CanCall
  /\ current_tick < MaxTick
  /\ Commit(sched_tick(World, clock))
  /\ Called("sched_tick", 0, 0, 0)

HandleRtPeriodStart(t) ==
  /\ CanCall
  /\ is_realtime(threads[t])
  /\ CommitCall(handle_rt_period_start(World, t, clock), "rt_period_start", t, 0)

\* Time passes between two events.
AdvanceClock ==
  /\ ~failed
  /\ \E i \in 1 .. Len(ClockTimes) - 1 : clock = ClockTimes[i] /\ clock' = ClockTimes[i + 1]
  /\ UNCHANGED <<sched_vars, call, calls, event_vars, runtime_vars>>

Next ==
  \/ \E t \in Threads : HandleThreadWakeup(t)
  \/ \E t \in Threads : HandleThreadBlock(t)
  \/ \E p \in Processors : HandleQuantumExpire(p)
  \/ HandleSchedTick
  \/ \E t \in Threads : HandleRtPeriodStart(t)
  \/ AdvanceClock

Spec == Init /\ [][Next]_vars


(***************************************************************************)
(* The facade called directly, as the application runtime and the parity   *)
(* harness do: thread_setrun, thread_remove and thread_block on any thread *)
(* in any state, next to the engine's handlers.                            *)
(***************************************************************************)
MaxFacadeCalls == 3

InitFacade == \E population \in Populations : InitPopulation(population, MaxFacadeCalls)

\* Scheduler.thread_setrun(thread, now), options defaulted to SCHED_TAILQ.
CallThreadSetrun(t) ==
  /\ CanCall
  /\ CommitCall(wakeup_result(thread_setrun(World, t, clock, {SCHED_TAILQ})), "thread_setrun", t, 0)

\* Scheduler.thread_remove(thread, now).
CallThreadRemove(t) ==
  /\ CanCall
  /\ Commit(thread_remove(World, t, clock))
  /\ Called("thread_remove", t, 0, 0)

\* Scheduler.thread_block(thread, processor, now).
CallThreadBlock(t, p) ==
  /\ CanCall
  /\ CommitCall(thread_block(World, t, p, clock), "raw_thread_block", t, p)

\* Scheduler.thread_wakeup(thread, now), without the engine's checks around it.
CallThreadWakeup(t) ==
  /\ CanCall
  /\ CommitCall(thread_wakeup(World, t, clock), "raw_thread_wakeup", t, 0)

\* complete_task once thread_block gave blk: the next thread's quantum is armed, or none is.
complete_blocked(blk, now) ==
  IF blk.ret # 0 THEN schedule_quantum_expire(blk.w, 1, blk.ret, now)
  ELSE [blk.w EXCEPT !.proc[1].quantum_end = 0]

\* human_sched/application/runtime.py, complete_task once the catch-up is done: the runtime owns
\* one processor; a RUNNING thread is blocked there (and the next quantum armed), a RUNNABLE
\* one removed, and the thread is TERMINATED.
complete_task(W, t, now) ==
  IF W.thr[t].state = "TERMINATED" THEN W
  ELSE IF W.thr[t].state = "RUNNING"
  THEN [complete_blocked(thread_block(W, t, 1, now), now) EXCEPT !.thr[t].state = "TERMINATED"]
  ELSE IF W.thr[t].state = "RUNNABLE"
  THEN [thread_remove(W, t, now) EXCEPT !.thr[t].state = "TERMINATED"]
  ELSE [W EXCEPT !.thr[t].state = "TERMINATED"]

CompleteTask(t) ==
  /\ CanCall
  /\ Processors = {1}
  /\ Commit(complete_task(World, t, clock))
  /\ Called("complete_task", t, 0, 0)

NextFacade ==
  \/ \E t \in Threads : HandleThreadWakeup(t)
  \/ \E t \in Threads : HandleThreadBlock(t)
  \/ \E p \in Processors : HandleQuantumExpire(p)
  \/ HandleSchedTick
  \/ \E t \in Threads : HandleRtPeriodStart(t)
  \/ AdvanceClock
  \/ \E t \in Threads : CallThreadSetrun(t)
  \/ \E t \in Threads : CallThreadRemove(t)
  \/ \E t \in Threads, p \in Processors : CallThreadBlock(t, p)
  \/ \E t \in Threads : CallThreadWakeup(t)
  \/ \E t \in Threads : CompleteTask(t)

SpecFacade == InitFacade /\ [][NextFacade]_vars


(***************************************************************************)
(* The engine running timeshare threads that compete for one processor.    *)
(* SimulationEngine.add_thread schedules every thread's first wakeup at    *)
(* start_time 0 and run() handles them in the order the threads were       *)
(* added, before any other event: the exploration starts from there.       *)
(***************************************************************************)
MaxDecayCalls == 6

RECURSIVE StartThreads(_, _)
StartThreads(W, t) ==
  IF t \notin DOMAIN W.thr THEN W ELSE StartThreads(handle_thread_wakeup(W, t, 0).w, t + 1)

InitDecay == InitWorld(StartThreads(NewWorld(PopulationTimeshare), 1), MaxDecayCalls)

NextDecay ==
  \/ \E t \in Threads : HandleThreadWakeup(t)
  \/ \E t \in Threads : HandleThreadBlock(t)
  \/ \E p \in Processors : HandleQuantumExpire(p)
  \/ HandleSchedTick
  \/ AdvanceClock

SpecDecay == InitDecay /\ [][NextDecay]_vars

\* The same engine on three timeshare threads of one group, one bucket and one base priority:
\* whichever has used the CPU decays below its peers.
PopulationPeers ==
  [ncpu |-> 1,
   thr |-> [t \in 1 .. 3 |-> Thread_New(1, TH_MODE_TIMESHARE, BASEPRI_DEFAULT, 0, 0, 0)]]

MaxPeerCalls == 6

InitPeers == InitWorld(StartThreads(NewWorld(PopulationPeers), 1), MaxPeerCalls)

SpecPeers == InitPeers /\ [][NextDecay]_vars


(***************************************************************************)
(* Scenario S-5, as parity_harness.py sets it up: one sleeping timeshare   *)
(* thread on a sole processor, seeded with the usage and pri_shift of an   *)
(* earlier contended run, its bucket group holding the same pri_shift;     *)
(* then scheduler ticks one interval apart and a thread_setrun.            *)
(***************************************************************************)
SCHED_TICK_INTERVAL_US == 125000

MaxS5Ticks == 3
MaxS5Calls == 4
\* How long after the last tick the thread is set to run.
S5SetrunDelay == 25000

\* The seed of S-5, and seeds at other base priorities around it.
S5Scenario == [base_pri |-> BASEPRI_FOREGROUND, sched_usage |-> 64, pri_shift |-> 1]

S5Seeds ==
  {S5Scenario} \cup [base_pri : {BASEPRI_DEFAULT, BASEPRI_USER_INITIATED},
                     sched_usage : {0, 64, 512, 4096},
                     pri_shift : {1, 2, INT8_MAX}]

SleeperWorld(seed) ==
  LET th == [Thread_New(1, TH_MODE_TIMESHARE, seed.base_pri, 0, 0, 0) EXCEPT
               !.sched_usage = seed.sched_usage,
               !.cpu_usage = seed.sched_usage,
               !.pri_shift = seed.pri_shift]
      W == NewWorld([ncpu |-> 1, thr |-> <<th>>])
  IN [W EXCEPT !.cbg[<<1, th.th_sched_bucket>>].scbg_pri_shift = seed.pri_shift]

InitS5 == \E seed \in S5Seeds : InitWorld(SleeperWorld(seed), MaxS5Calls)

\* The call op on thread t was made at time now.
CalledAt(op, t, now) ==
  /\ call' = [op |-> op, thread |-> t, processor |-> 0, ret |-> 0,
              pre |-> IF t = 0 THEN "NONE" ELSE threads[t].state]
  /\ calls' = calls - 1
  /\ clock' = now
  /\ UNCHANGED <<event_vars, runtime_vars>>

TickS5 ==
  /\ CanCall
  /\ current_tick < MaxS5Ticks
  /\ LET now == (current_tick + 1) * SCHED_TICK_INTERVAL_US
     IN Commit(sched_tick(World, now)) /\ CalledAt("sched_tick", 0, now)

SetrunS5 ==
  /\ CanCall
  /\ threads[1].state = "WAITING"
  /\ LET now == current_tick * SCHED_TICK_INTERVAL_US + S5SetrunDelay
     IN Commit(thread_setrun(World, 1, now, {SCHED_TAILQ})[2]) /\ CalledAt("thread_setrun", 1, now)

NextS5 == TickS5 \/ SetrunS5

SpecS5 == InitS5 /\ [][NextS5]_vars


(***************************************************************************)
(* One StablePriorityQueue driven as parity_harness.py drives it: items    *)
(* with a priority, inserted with any preempted flag and stamp, removed,   *)
(* popped, and re-keyed by refresh_priorities after a priority changed.    *)
(* The queue is bound_runqs[1]; threads holds the items, each with what    *)
(* the driver knows of its last insertion.                                 *)
(***************************************************************************)
MaxQCalls == 4
QItemIds == {1, 2, 3}
QPriorities == {50, 51}
QStamps == {10, 20}

QItem(pri) == [sched_pri |-> pri, state |-> "WAITING", preempted |-> FALSE, stamp |-> 0, seq |-> 0]

QWorld(pri) ==
  [thr |-> [i \in QItemIds |-> QItem(pri[i])],
   cbg |-> <<>>, cb |-> <<>>, sc |-> <<>>, root |-> ClutchRoot_New, rt |-> RTQueue_New,
   proc |-> <<>>, brq |-> <<PQ_New>>, tick |-> 0, err |-> FALSE]

InitQ == \E pri \in [QItemIds -> QPriorities] : InitWorld(QWorld(pri), MaxQCalls)

QUnchanged ==
  UNCHANGED <<bucket_groups, clutch_buckets, clutches, clutch_root, rt_runq, processors, current_tick, failed>>

\* q.insert(item, preempted, stamp) of an item that is not queued.
QInsert(i, preempted, stamp) ==
  /\ CanCall
  /\ threads[i].state = "WAITING"
  /\ bound_runqs' = <<StablePriorityQueue_insert(bound_runqs[1], i, threads[i].sched_pri, preempted, stamp)>>
  /\ threads' = [threads EXCEPT ![i] = [@ EXCEPT !.state = "RUNNABLE", !.preempted = preempted,
                                                 !.stamp = stamp, !.seq = bound_runqs[1].counter + 1]]
  /\ QUnchanged
  /\ Called("insert", i, 0, 0)

\* q.remove(item) of a queued item.
QRemove(i) ==
  /\ CanCall
  /\ threads[i].state = "RUNNABLE"
  /\ bound_runqs' = <<StablePriorityQueue_remove(bound_runqs[1], i)>>
  /\ threads' = [threads EXCEPT ![i].state = "WAITING"]
  /\ QUnchanged
  /\ Called("remove", i, 0, 0)

\* q.pop_max() of a queue that is not empty.
QPopMax ==
  /\ CanCall
  /\ bound_runqs[1].heap # {}
  /\ bound_runqs' = <<StablePriorityQueue_pop_max(bound_runqs[1])>>
  /\ threads' = [threads EXCEPT ![StablePriorityQueue_peek_max(bound_runqs[1])].state = "WAITING"]
  /\ QUnchanged
  /\ Called("pop_max", StablePriorityQueue_peek_max(bound_runqs[1]), 0, 0)

\* An item's priority changes and the queue is refreshed, as sched_tick does.
QRefresh(i, pri) ==
  /\ CanCall
  /\ pri # threads[i].sched_pri
  /\ threads' = [threads EXCEPT ![i].sched_pri = pri]
  /\ bound_runqs' = <<StablePriorityQueue_refresh_priorities(
                        bound_runqs[1], [j \in Threads |-> IF j = i THEN pri ELSE threads[j].sched_pri])>>
  /\ QUnchanged
  /\ Called("refresh_priorities", i, 0, 0)

NextQ ==
  \/ \E i \in Threads, preempted \in BOOLEAN, stamp \in QStamps : QInsert(i, preempted, stamp)
  \/ \E i \in Threads : QRemove(i)
  \/ QPopMax
  \/ \E i \in Threads, pri \in QPriorities : QRefresh(i, pri)

SpecQ == InitQ /\ [][NextQ]_vars


(***************************************************************************)
(* One RTQueue driven as parity_harness.py drives it: realtime threads of  *)
(* two priorities, given a deadline and enqueued, dequeued and removed.    *)
(* The queue is rt_runq.                                                   *)
(***************************************************************************)
MaxRTCalls == 4
RTThreadIds == {1, 2, 3}
RTPriorities == {BASEPRI_RTQUEUES, BASEPRI_RTQUEUES + 1}
\* With RtConstraint = 5000 and epsilon 100: 1000 + 2450 passes the gate, 2450 + 2450 meets the
\* constraint exactly and does not.
RTComputations == {1000, 2450}
RTDeadlines == {1000, 2000}

RTWorld(pri, computation) ==
  [thr |-> [t \in RTThreadIds |-> [Thread_New(1, TH_MODE_REALTIME, pri[t], 0, computation[t], RtConstraint)
                                     EXCEPT !.sched_pri = pri[t]]],
   cbg |-> <<>>, cb |-> <<>>, sc |-> <<>>, root |-> ClutchRoot_New, rt |-> RTQueue_New,
   proc |-> <<>>, brq |-> <<>>, tick |-> 0, err |-> FALSE]

InitRT ==
  \E pri \in [RTThreadIds -> RTPriorities], computation \in [RTThreadIds -> RTComputations] :
    InitWorld(RTWorld(pri, computation), MaxRTCalls)

RTUnchanged ==
  UNCHANGED <<bucket_groups, clutch_buckets, clutches, clutch_root, processors, bound_runqs, current_tick, failed>>

\* The thread gets its deadline and rq.enqueue(thread) is called.
RTEnqueue(t, deadline) ==
  /\ CanCall
  /\ threads[t].state = "WAITING"
  /\ LET thr == [threads EXCEPT ![t].rt_deadline = deadline, ![t].state = "RUNNABLE"]
     IN threads' = thr /\ rt_runq' = RTQueue_enqueue(rt_runq, t, thr)
  /\ RTUnchanged
  /\ Called("enqueue", t, 0, 0)

\* rq.dequeue(); the call records the thread returned, 0 for None.
RTDequeue ==
  /\ CanCall
  /\ LET r == RTQueue_dequeue(rt_runq, threads)
     IN /\ rt_runq' = r[2]
        /\ threads' = IF r[1] = 0 THEN threads ELSE [threads EXCEPT ![r[1]].state = "WAITING"]
        /\ Called("dequeue", r[1], 0, r[1])
  /\ RTUnchanged

\* rq.remove(thread) of a queued thread.
RTRemove(t) ==
  /\ CanCall
  /\ threads[t].state = "RUNNABLE"
  /\ rt_runq' = RTQueue_remove(rt_runq, t, threads)
  /\ threads' = [threads EXCEPT ![t].state = "WAITING"]
  /\ RTUnchanged
  /\ Called("remove", t, 0, 0)

NextRT ==
  \/ \E t \in Threads, deadline \in RTDeadlines : RTEnqueue(t, deadline)
  \/ RTDequeue
  \/ \E t \in Threads : RTRemove(t)

SpecRT == InitRT /\ [][NextRT]_vars


(***************************************************************************)
(* The preemption check as parity_harness.py drives it: threads of chosen  *)
(* priorities are put on the two processors with thread_dispatch, and a    *)
(* waiting thread is enqueued by thread_setrun with or without             *)
(* SCHED_PREEMPT.  Threads at or above BASEPRI_PREEMPT are fixed-priority. *)
(***************************************************************************)
MaxPreemptCalls == 3
PreemptPriorities == {BASEPRI_DEFAULT, BASEPRI_FOREGROUND, BASEPRI_PREEMPT, BASEPRI_PREEMPT + 1}
PreemptOptions == {{SCHED_TAILQ}, {SCHED_HEADQ}, {SCHED_PREEMPT, SCHED_TAILQ}}

PreemptWorld(pri) ==
  NewWorld([ncpu |-> 2,
            thr |-> [t \in 1 .. 3 |->
                       Thread_New(1, IF pri[t] >= BASEPRI_PREEMPT THEN TH_MODE_FIXED ELSE TH_MODE_TIMESHARE,
                                  pri[t], 0, 0, 0)]])

InitPreempt == \E pri \in [1 .. 3 -> PreemptPriorities] : InitWorld(PreemptWorld(pri), MaxPreemptCalls)

\* Scheduler.thread_dispatch(proc, None, thread, now) of a fresh thread on a free processor.
DispatchCurrent(p, t) ==
  /\ CanCall
  /\ processors[p].active_thread = 0
  /\ threads[t].state = "WAITING"
  /\ Commit(thread_dispatch(World, p, 0, t, clock))
  /\ Called("thread_dispatch", t, p, 0)

\* Scheduler.thread_setrun(thread, now, options) of a waiting thread; the call is recorded as
\* thread_setrun_preempt when the options hold SCHED_PREEMPT.
SetrunWith(t, options) ==
  /\ CanCall
  /\ threads[t].state = "WAITING"
  /\ CommitCall(wakeup_result(thread_setrun(World, t, clock, options)),
                IF SCHED_PREEMPT \in options THEN "thread_setrun_preempt" ELSE "thread_setrun", t, 0)

NextPreempt ==
  \/ \E p \in Processors, t \in Threads : DispatchCurrent(p, t)
  \/ \E t \in Threads, options \in PreemptOptions : SetrunWith(t, options)

SpecPreempt == InitPreempt /\ [][NextPreempt]_vars


(***************************************************************************)
(* The simulation engine with its event queue (SimulationEngine.run): a    *)
(* default and a foreground timeshare thread on one processor, each added  *)
(* with its first wakeup.  Every step pops the earliest event, moves the   *)
(* clock to it and runs its handler; the CPU bursts and block durations    *)
(* the behaviours sample are chosen among a few values.  The run is        *)
(* shorter than a scheduler tick, so that no tick event is queued.         *)
(***************************************************************************)
MaxEventCalls == 12
SimulationDuration == 30000
EventStartTimes == {0, 500}
CpuBursts == {1000, 8000}
BlockDurations == {2000}

PopulationEvents ==
  [ncpu |-> 1,
   thr |-> <<Thread_New(1, TH_MODE_TIMESHARE, BASEPRI_DEFAULT, 0, 0, 0),
             Thread_New(2, TH_MODE_TIMESHARE, BASEPRI_FOREGROUND, 0, 0, 0)>>]

\* SimulationEngine.add_thread of the two threads, the second one at start_time.
InitEvents ==
  \E start_time \in EventStartTimes :
     InitEngine(NewWorld(PopulationEvents), MaxEventCalls,
                <<Event(0, "THREAD_WAKEUP", 1, 0), Event(start_time, "THREAD_WAKEUP", 2, 0)>>,
                [t \in 1 .. 2 |-> -1])

\* The event the main loop pops next, and the bookkeeping once it is popped.
NextEvent == event_queue[heap_first(event_queue)]
Driver == [q |-> heap_rest(event_queue), dl |-> thread_block_deadlines]

\* The main loop goes on to an event of type event_type.
CanHandle(event_type) ==
  /\ CanCall
  /\ event_queue # <<>>
  /\ NextEvent.timestamp <= SimulationDuration
  /\ NextEvent.event_type = event_type

\* The state after the handler of event gave r.
CommitEvent(r, event) ==
  /\ Commit(r.w)
  /\ event_queue' = r.d.q
  /\ thread_block_deadlines' = r.d.dl
  /\ clock' = event.timestamp
  /\ call' = [op |-> r.op, thread |-> event.thread_id, processor |-> event.processor_id, ret |-> r.ret,
              pre |-> threads[event.thread_id].state]
  /\ calls' = calls - 1
  /\ UNCHANGED runtime_vars

EventThreadWakeup ==
  /\ CanHandle("THREAD_WAKEUP")
  /\ \E burst \in CpuBursts :
        CommitEvent(event_thread_wakeup(World, Driver, NextEvent, NextEvent.timestamp, burst), NextEvent)

EventThreadBlock ==
  /\ CanHandle("THREAD_BLOCK")
  /\ \E burst \in CpuBursts, block_duration \in BlockDurations :
        CommitEvent(event_thread_block(World, Driver, NextEvent, NextEvent.timestamp, burst, block_duration),
                    NextEvent)

EventQuantumExpire ==
  /\ CanHandle("QUANTUM_EXPIRE")
  /\ \E burst \in CpuBursts :
        CommitEvent(event_quantum_expire(World, Driver, NextEvent, NextEvent.timestamp, burst), NextEvent)

NextEvents == EventThreadWakeup \/ EventThreadBlock \/ EventQuantumExpire

SpecEvents == InitEvents /\ [][NextEvents]_vars


(***************************************************************************)
(* human_sched/application/runtime.py: HumanTaskScheduler, the driver of   *)
(* one processor for human tasks.  R = [w, last_tick_us, log] is the       *)
(* runtime during an operation: the world, _last_tick_us and the `now` of  *)
(* every core call made so far.  Timers are enabled: the quantum timer is  *)
(* armed for the active thread at the processor's quantum_end, the tick    *)
(* timer for _last_tick_us + SCHED_TICK_INTERVAL_US; a timer callback runs *)
(* at its due time or later.                                               *)
(***************************************************************************)
DEFAULT_MAX_CATCHUP_TICKS == 4

\* A core call at `now` gave world W1.
core_call(R, W1, now) == [R EXCEPT !.w = W1, !.log = Append(@, now)]

\* The loop of _apply_tick_catchup: to_apply ticks, each an interval after the last.
RECURSIVE tick_catchup(_, _)
tick_catchup(R, to_apply) ==
  IF to_apply = 0 THEN R
  ELSE tick_catchup([w |-> sched_tick(R.w, R.last_tick_us + SCHED_TICK_INTERVAL_US),
                     last_tick_us |-> R.last_tick_us + SCHED_TICK_INTERVAL_US,
                     log |-> Append(R.log, R.last_tick_us + SCHED_TICK_INTERVAL_US)],
                    to_apply - 1)

\* _apply_tick_catchup
apply_tick_catchup(R, now_us) ==
  IF now_us <= R.last_tick_us \/ (now_us - R.last_tick_us) \div SCHED_TICK_INTERVAL_US <= 0 THEN R
  ELSE tick_catchup(R, Min((now_us - R.last_tick_us) \div SCHED_TICK_INTERVAL_US, DEFAULT_MAX_CATCHUP_TICKS))

\* _arm_quantum_for_active: with no active thread the quantum artifacts are cancelled and
\* quantum_end reset; else a spent quantum is reset and quantum_end set.
arm_quantum_for_active(W, dispatch_timestamp) ==
  IF W.proc[1].active_thread = 0 THEN [W EXCEPT !.proc[1].quantum_end = 0]
  ELSE schedule_quantum_expire(W, 1, W.proc[1].active_thread, dispatch_timestamp)

\* HumanTaskScheduler._try_dispatch_idle
runtime_try_dispatch_idle(W, timestamp) == arm_quantum_for_active(try_dispatch_idle(W, 1, timestamp), timestamp)

\* HumanTaskScheduler._handle_preemption
runtime_handle_preemption(W, timestamp) == arm_quantum_for_active(handle_preemption(W, 1, timestamp), timestamp)

\* _handle_preemption_request with trigger_when_idle false: an idle processor is left idle.
handle_preemption_request(R, preempt_proc, timestamp) ==
  IF preempt_proc = 0 \/ is_idle(R.w.proc[preempt_proc]) THEN R
  ELSE core_call(R, runtime_handle_preemption(R.w, timestamp), timestamp)

\* thread_block gave blk at now_us: the next thread's quantum is armed, or none is.
runtime_blocked(R, blk, now_us) == core_call(R, arm_quantum_for_active(blk.w, now_us), now_us)

\* _apply_lazy_catchup once the ticks are caught up: a missed focus-block end blocks the active thread.
lazy_expired(R1, now_us) ==
  IF \/ R1.w.proc[1].active_thread = 0
     \/ R1.w.proc[1].quantum_end <= 0
     \/ now_us <= R1.w.proc[1].quantum_end
  THEN R1
  ELSE runtime_blocked(R1, thread_block(R1.w, R1.w.proc[1].active_thread, 1, now_us), now_us)

\* _apply_lazy_catchup
apply_lazy_catchup(R, now_us) == lazy_expired(apply_tick_catchup(R, now_us), now_us)

\* A thread_setrun or thread_wakeup gave sr = [w, ret] at now_us: the preemption it asks for is handled.
setrun_requested(R1, sr, now_us) == handle_preemption_request(core_call(R1, sr.w, now_us), sr.ret, now_us)

\* create_task with start_runnable, after the catch-up.
created_task(R1, t, now_us) ==
  setrun_requested(R1, wakeup_result(thread_setrun(R1.w, t, now_us, {SCHED_PREEMPT, SCHED_TAILQ})), now_us)

create_task(R, t, now_us) == created_task(apply_lazy_catchup(R, now_us), t, now_us)

\* pause_task after the catch-up (last_run_time is not part of the thread's model).
paused_task(R1, known, t, now_us) ==
  IF ~known \/ R1.w.thr[t].state \in {"TERMINATED", "WAITING"} THEN R1
  ELSE IF R1.w.thr[t].state = "RUNNABLE"
  THEN core_call(R1, [thread_remove(R1.w, t, now_us) EXCEPT !.thr[t].state = "WAITING"], now_us)
  ELSE runtime_blocked(R1, thread_block(R1.w, t, 1, now_us), now_us)

pause_task(R, known, t, now_us) == paused_task(apply_lazy_catchup(R, now_us), known, t, now_us)

\* resume_task after the catch-up.
resumed_task(R1, known, t, now_us) ==
  IF known /\ R1.w.thr[t].state = "WAITING" THEN setrun_requested(R1, thread_wakeup(R1.w, t, now_us), now_us)
  ELSE R1

resume_task(R, known, t, now_us) == resumed_task(apply_lazy_catchup(R, now_us), known, t, now_us)

\* complete_task with the catch-up before it.
completed_task(R1, known, t, now_us) ==
  IF ~known \/ R1.w.thr[t].state = "TERMINATED" THEN R1
  ELSE IF R1.w.thr[t].state = "WAITING" THEN [R1 EXCEPT !.w = complete_task(R1.w, t, now_us)]
  ELSE core_call(R1, complete_task(R1.w, t, now_us), now_us)

runtime_complete_task(R, known, t, now_us) == completed_task(apply_lazy_catchup(R, now_us), known, t, now_us)

\* what_next after the catch-up: an idle processor selects and dispatches.
what_next_dispatched(R1, now_us) ==
  IF R1.w.proc[1].active_thread = 0 THEN core_call(R1, runtime_try_dispatch_idle(R1.w, now_us), now_us)
  ELSE R1

what_next(R, now_us) == what_next_dispatched(apply_lazy_catchup(R, now_us), now_us)

\* _on_quantum_timer once the ticks are caught up and its checks passed: the quantum expires at
\* the time the timer was armed for, and the next quantum is armed from there.
quantum_timer_expired(R1, qe, expected_quantum_end) ==
  core_call(R1, arm_quantum_for_active(qe.w, expected_quantum_end), expected_quantum_end)

on_quantum_timer(R, expected_tid, expected_quantum_end, now_us) ==
  IF \/ R.w.proc[1].active_thread = 0
     \/ R.w.proc[1].active_thread # expected_tid
     \/ R.w.proc[1].quantum_end # expected_quantum_end
  THEN apply_tick_catchup(R, now_us)
  ELSE quantum_timer_expired(apply_tick_catchup(R, now_us),
                             thread_quantum_expire(apply_tick_catchup(R, now_us).w, 1, expected_quantum_end),
                             expected_quantum_end)

\* _on_tick_timer
on_tick_timer(R, expected_tick_us, now_us) ==
  IF expected_tick_us <= R.last_tick_us \/ now_us + 1 < expected_tick_us THEN R
  ELSE [w |-> sched_tick(R.w, expected_tick_us), last_tick_us |-> expected_tick_us,
        log |-> Append(R.log, expected_tick_us)]

(***************************************************************************)
(* The runtime as a state machine: a normal and an active-focus task of    *)
(* two life areas; the wall clock, read by every operation, moves through  *)
(* RuntimeTimes between operations.                                        *)
(***************************************************************************)
MaxRuntimeCalls == 4
RuntimeTimes == <<0, 6000, 10000, 627000, 628000>>

PopulationRuntime ==
  [ncpu |-> 1,
   thr |-> <<Thread_New(1, TH_MODE_TIMESHARE, BASEPRI_DEFAULT, 0, 0, 0),
             Thread_New(2, TH_MODE_TIMESHARE, BASEPRI_FOREGROUND, 0, 0, 0)>>]

\* HumanTaskScheduler.__init__
InitRuntime == InitWorld(NewWorld(PopulationRuntime), MaxRuntimeCalls)

\* The runtime before an operation.
Runtime ==
  [w |-> World, last_tick_us |-> last_tick_us,
   log |-> IF now_log = <<>> THEN <<>> ELSE <<now_log[Len(now_log)]>>]

\* The state after operation op on task t left the runtime as R.
CommitRuntime(R, op, t) ==
  /\ Commit(R.w)
  /\ last_tick_us' = R.last_tick_us
  /\ now_log' = R.log
  /\ call' = [op |-> op, thread |-> t, processor |-> 1, ret |-> 0,
              pre |-> IF t = 0 THEN "NONE" ELSE threads[t].state]
  /\ calls' = calls - 1
  /\ UNCHANGED <<clock, event_vars>>

CreateTask(t) ==
  /\ CanCall
  /\ t \notin tasks_by_id
  /\ tasks_by_id' = tasks_by_id \cup {t}
  /\ CommitRuntime(create_task(Runtime, t, clock), "create_task", t)

PauseTask(t) ==
  /\ CanCall
  /\ UNCHANGED tasks_by_id
  /\ CommitRuntime(pause_task(Runtime, t \in tasks_by_id, t, clock), "pause_task", t)

ResumeTask(t) ==
  /\ CanCall
  /\ UNCHANGED tasks_by_id
  /\ CommitRuntime(resume_task(Runtime, t \in tasks_by_id, t, clock), "resume_task", t)

RuntimeCompleteTask(t) ==
  /\ CanCall
  /\ UNCHANGED tasks_by_id
  /\ CommitRuntime(runtime_complete_task(Runtime, t \in tasks_by_id, t, clock), "complete_task", t)

WhatNext ==
  /\ CanCall
  /\ UNCHANGED tasks_by_id
  /\ CommitRuntime(what_next(Runtime, clock), "what_next", 0)

\* The quantum timer armed for the active thread fires, at its due time or later.
OnQuantumTimer ==
  /\ CanCall
  /\ processors[1].active_thread # 0
  /\ clock >= processors[1].quantum_end
  /\ UNCHANGED tasks_by_id
  /\ CommitRuntime(on_quantum_timer(Runtime, processors[1].active_thread, processors[1].quantum_end, clock),
                   "on_quantum_timer", processors[1].active_thread)

\* The tick timer fires, at its due time or later.
OnTickTimer ==
  /\ CanCall
  /\ clock >= last_tick_us + SCHED_TICK_INTERVAL_US
  /\ UNCHANGED tasks_by_id
  /\ CommitRuntime(on_tick_timer(Runtime, last_tick_us + SCHED_TICK_INTERVAL_US, clock), "on_tick_timer", 0)

\* The wall clock moves on.
AdvanceRuntimeClock ==
  /\ ~failed
  /\ \E i, j \in 1 .. Len(RuntimeTimes) : i < j /\ clock = RuntimeTimes[i] /\ clock' = RuntimeTimes[j]
  /\ UNCHANGED <<sched_vars, call, calls, event_vars, runtime_vars>>

NextRuntime ==
  \/ \E t \in Threads : CreateTask(t)
  \/ \E t \in Threads : PauseTask(t)
  \/ \E t \in Threads : ResumeTask(t)
  \/ \E t \in Threads : RuntimeCompleteTask(t)
  \/ WhatNext
  \/ OnQuantumTimer
  \/ OnTickTimer
  \/ AdvanceRuntimeClock

SpecRuntime == InitRuntime /\ [][NextRuntime]_vars


(***************************************************************************)
(* Scenario S-3: a DF thread D of one group is enqueued at t = 0, an FG    *)
(* thread F of another group at t = 5, and the root bucket is selected     *)
(* with ClutchRoot.highest_root_bucket at times that never decrease; no    *)
(* thread is dequeued.  call.ret is the root bucket the selection gave.    *)
(***************************************************************************)
MaxS3Calls == 6
S3SelectTimes == {5, 4000, 8004, 8010, 70000, 75006, 79000, 83005, 83007, 90000}
S3BasePriorities == {BASEPRI_UTILITY + 1, BASEPRI_DEFAULT}

S3World(base_pri) ==
  NewWorld([ncpu |-> 1,
            thr |-> <<Thread_New(1, TH_MODE_TIMESHARE, base_pri, 0, 0, 0),
                      Thread_New(2, TH_MODE_TIMESHARE, BASEPRI_FOREGROUND, 0, 0, 0)>>])

InitS3 == \E base_pri \in S3BasePriorities : InitWorld(S3World(base_pri), MaxS3Calls)

\* thread_setrun(D, 0, TAILQ), then thread_setrun(F, 5, TAILQ).
S3Enqueue(t, now) ==
  /\ CanCall
  /\ threads[t].state = "WAITING"
  /\ t = 2 => threads[1].state = "RUNNABLE"
  /\ Commit(thread_setrun(World, t, now, {SCHED_TAILQ})[2])
  /\ CalledAt("thread_setrun", t, now)

\* The state after highest_root_bucket gave r at time now.
S3Selected(r, now) ==
  /\ Commit(r.w)
  /\ call' = [op |-> "highest_root_bucket", thread |-> 0, processor |-> 0, ret |-> r.bucket, pre |-> "NONE"]
  /\ calls' = calls - 1
  /\ clock' = now
  /\ UNCHANGED <<event_vars, runtime_vars>>

S3Select(now) ==
  /\ CanCall
  /\ threads[1].state = "RUNNABLE" /\ threads[2].state = "RUNNABLE"
  /\ now >= clock
  /\ S3Selected(highest_root_bucket(World, now, -1, 0), now)

NextS3 ==
  \/ S3Enqueue(1, 0)
  \/ S3Enqueue(2, 5)
  \/ \E now \in S3SelectTimes : S3Select(now)

SpecS3 == InitS3 /\ [][NextS3]_vars


(***************************************************************************)
(* Scenario S-1: one timeshare thread T on one processor.  The driver      *)
(* makes thread_setrun(T, 0, TAILQ), then at a later time thread_select,   *)
(* thread_dispatch of the thread selected and _schedule_quantum_expire,    *)
(* as SimulationEngine._try_dispatch_idle does.  After thread_select,      *)
(* call.ret is the thread it gave and call.chose_prev its second result.   *)
(***************************************************************************)
MaxS1Calls == 4
S1SelectTimes == {1, 2, 10, 1000, 6000}
S1BasePriorities == {MAXPRI_THROTTLE, BASEPRI_UTILITY, BASEPRI_UTILITY + 1, BASEPRI_DEFAULT,
                     BASEPRI_USER_INITIATED, BASEPRI_USER_INITIATED + 1, BASEPRI_FOREGROUND}

S1World(base_pri) == NewWorld([ncpu |-> 1, thr |-> <<Thread_New(1, TH_MODE_TIMESHARE, base_pri, 0, 0, 0)>>])

InitS1 == \E base_pri \in S1BasePriorities : InitWorld(S1World(base_pri), MaxS1Calls)

\* The driver's call op at time now returned thread ret (and chose_prev, for thread_select).
S1Called(op, now, ret, chose_prev) ==
  /\ call' = [op |-> op, thread |-> 1, processor |-> 1, ret |-> ret, pre |-> threads[1].state,
              chose_prev |-> chose_prev]
  /\ calls' = calls - 1
  /\ clock' = now
  /\ UNCHANGED <<event_vars, runtime_vars>>

S1Setrun ==
  /\ CanCall
  /\ call.op = "init"
  /\ Commit(thread_setrun(World, 1, 0, {SCHED_TAILQ})[2])
  /\ S1Called("thread_setrun", 0, 0, FALSE)

\* The state after thread_select gave sel at time now.
S1Selected(sel, now) == Commit(sel.w) /\ S1Called("thread_select", now, sel.thread, sel.chose_prev)

S1Select(now) ==
  /\ CanCall
  /\ call.op = "thread_setrun"
  /\ S1Selected(thread_select(World, 1, now, 0), now)

S1Dispatch ==
  /\ CanCall
  /\ call.op = "thread_select" /\ call.ret # 0
  /\ Commit(thread_dispatch(World, 1, 0, call.ret, clock))
  /\ S1Called("thread_dispatch", clock, call.ret, FALSE)

S1ScheduleQuantumExpire ==
  /\ CanCall
  /\ call.op = "thread_dispatch"
  /\ Commit(schedule_quantum_expire(World, 1, processors[1].active_thread, clock))
  /\ S1Called("schedule_quantum_expire", clock, processors[1].active_thread, FALSE)

NextS1 ==
  \/ S1Setrun
  \/ \E now \in S1SelectTimes : S1Select(now)
  \/ S1Dispatch
  \/ S1ScheduleQuantumExpire

SpecS1 == InitS1 /\ [][NextS1]_vars


(***************************************************************************)
(* The facade driven directly, as parity_harness.py drives it, every call  *)
(* made with its stated precondition met: thread_setrun of a thread that   *)
(* is not RUNNING, thread_select and thread_dispatch on an idle processor, *)
(* thread_block of a processor's active thread, thread_quantum_expire of a *)
(* busy processor; thread_remove of any thread, which the facade declares  *)
(* a no-op unless the thread is queued.                                    *)
(***************************************************************************)
MaxDirectCalls == 4

InitDirect == \E population \in Populations : InitPopulation(population, MaxDirectCalls)

\* Scheduler.thread_setrun(thread, now) of a thread that is WAITING or RUNNABLE.
SetrunNotRunning(t) ==
  /\ threads[t].state \in {"WAITING", "RUNNABLE"}
  /\ CallThreadSetrun(t)

\* The state after thread_select and thread_dispatch on processor p gave world W1.
Dispatched(W1, p) == Commit(W1) /\ Called("try_dispatch_idle", W1.proc[p].active_thread, p, W1.proc[p].active_thread)

\* thread_select(p, now, None), and thread_dispatch of the thread it gave, on an idle processor.
SelectAndDispatch(p) ==
  /\ CanCall
  /\ is_idle(processors[p])
  /\ Dispatched(try_dispatch_idle(World, p, clock), p)

NextDirect ==
  \/ \E t \in Threads : SetrunNotRunning(t)
  \/ \E p \in Processors : SelectAndDispatch(p)
  \/ \E t \in Threads : CallThreadRemove(t)
  \/ \E t \in Threads : HandleThreadBlock(t)
  \/ \E p \in Processors : HandleQuantumExpire(p)
  \/ AdvanceClock

SpecDirect == InitDirect /\ [][NextDirect]_vars


(***************************************************************************)
(* The facade driven one call at a time, as parity_harness.py drives it:   *)
(* thread_setrun of a WAITING thread, thread_select for an idle processor  *)
(* and, as a step of its own, thread_dispatch of the thread selected;      *)
(* thread_remove of a queued thread (pause_task), thread_block and         *)
(* thread_quantum_expire of a running one.  After thread_select, call.ret  *)
(* is the thread it gave, which the driver dispatches before anything else.*)
(***************************************************************************)
MaxHarnessCalls == 5

InitHarness == \E population \in Populations : InitPopulation(population, MaxHarnessCalls)

\* thread_select has given a thread that thread_dispatch has yet to put on the processor.
SelectionPending == call.op = "thread_select" /\ call.ret # 0

SetrunWaiting(t) ==
  /\ ~SelectionPending
  /\ threads[t].state = "WAITING"
  /\ CallThreadSetrun(t)

\* The state after thread_select(p, now, None) gave sel.
Selected(sel, p) ==
  /\ Commit(sel.w)
  /\ call' = [op |-> "thread_select", thread |-> sel.thread, processor |-> p, ret |-> sel.thread,
              pre |-> IF sel.thread = 0 THEN "NONE" ELSE threads[sel.thread].state,
              chose_prev |-> sel.chose_prev]
  /\ calls' = calls - 1
  /\ UNCHANGED <<clock, event_vars, runtime_vars>>

ThreadSelect(p) ==
  /\ CanCall
  /\ ~SelectionPending
  /\ is_idle(processors[p])
  /\ Selected(thread_select(World, p, clock, 0), p)

ThreadDispatch ==
  /\ CanCall
  /\ SelectionPending
  /\ Commit(thread_dispatch(World, call.processor, 0, call.ret, clock))
  /\ Called("thread_dispatch", call.ret, call.processor, call.ret)

\* pause_task of a RUNNABLE task: thread_remove, and the thread is WAITING.
RemoveRunnable(t) ==
  /\ CanCall
  /\ ~SelectionPending
  /\ threads[t].state = "RUNNABLE"
  /\ Commit([thread_remove(World, t, clock) EXCEPT !.thr[t].state = "WAITING"])
  /\ Called("thread_remove", t, 0, 0)

BlockRunning(t) == ~SelectionPending /\ HandleThreadBlock(t)

QuantumExpire(p) == ~SelectionPending /\ HandleQuantumExpire(p)

NextHarness ==
  \/ \E t \in Threads : SetrunWaiting(t)
  \/ \E p \in Processors : ThreadSelect(p)
  \/ ThreadDispatch
  \/ \E t \in Threads : RemoveRunnable(t)
  \/ \E t \in Threads : BlockRunning(t)
  \/ \E p \in Processors : QuantumExpire(p)
  \/ AdvanceClock

SpecHarness == InitHarness /\ [][NextHarness]_vars


(***************************************************************************)
(* Contention on one processor: the threads of a higher-QoS timeshare      *)
(* bucket and one thread of a lower-QoS timeshare bucket are woken at 0    *)
(* and never block.  The engine then runs its events in time order: the    *)
(* quantum expiry of the processor at quantum_end, and SCHED_TICK at every *)
(* multiple of SCHED_TICK_INTERVAL_US (scheduled first by run(), so a tick *)
(* precedes an expiry of the same timestamp).                              *)
(***************************************************************************)
MaxContentionEvents == 60
ContentionHighPriorities == {BASEPRI_FOREGROUND, BASEPRI_USER_INITIATED}
ContentionLowPriorities == {BASEPRI_USER_INITIATED, BASEPRI_DEFAULT, BASEPRI_UTILITY, MAXPRI_THROTTLE}
MaxHighThreads == 2

\* high_count threads of one group at high_pri, then one thread of another group at low_pri.
ContentionWorld(high_pri, high_count, low_pri) ==
  NewWorld([ncpu |-> 1,
            thr |-> [t \in 1 .. high_count + 1 |->
                       IF t <= high_count
                       THEN Thread_New(1, TH_MODE_TIMESHARE, high_pri, 0, 0, 0)
                       ELSE Thread_New(2, TH_MODE_TIMESHARE, low_pri, 0, 0, 0)]])

InitContention ==
  \E high_pri \in ContentionHighPriorities, high_count \in 1 .. MaxHighThreads,
     low_pri \in ContentionLowPriorities :
    /\ convert_pri_to_bucket(high_pri) < convert_pri_to_bucket(low_pri)
    /\ InitWorld(ContentionWorld(high_pri, high_count, low_pri), MaxContentionEvents)

\* The thread of the lower-QoS bucket: the last one.
LowThread == Cardinality(Threads)

\* The timestamp of the next SCHED_TICK event.
NextTickTime == (current_tick + 1) * SCHED_TICK_INTERVAL_US

AllWoken == \A t \in Threads : threads[t].state # "WAITING"

\* The threads are woken at 0 in the order of their ids, the lower-QoS thread last.
ContentionWakeup(t) ==
  /\ CanCall
  /\ clock = 0
  /\ threads[t].state = "WAITING"
  /\ \A u \in Threads : u < t => threads[u].state # "WAITING"
  /\ CommitCall(handle_thread_wakeup(World, t, 0), "thread_wakeup", t, 0)

\* The state after the event handler gave world W1 and ret at time now.
ContentionEvent(W1, op, t, ret, now) ==
  /\ Commit(W1)
  /\ call' = [op |-> op, thread |-> t, processor |-> IF t = 0 THEN 0 ELSE 1, ret |-> ret,
              pre |-> IF t = 0 THEN "NONE" ELSE threads[t].state]
  /\ calls' = calls - 1
  /\ clock' = now
  /\ UNCHANGED <<event_vars, runtime_vars>>

\* The QUANTUM_EXPIRE event of the processor, at its quantum_end.
ContentionQuantumExpire ==
  /\ CanCall
  /\ AllWoken
  /\ processors[1].active_thread # 0
  /\ processors[1].quantum_end < NextTickTime
  /\ ContentionEvent(handle_quantum_expire(World, 1, processors[1].quantum_end).w,
                     "thread_quantum_expire", processors[1].active_thread,
                     handle_quantum_expire(World, 1, processors[1].quantum_end).ret,
                     processors[1].quantum_end)

\* The SCHED_TICK event.
ContentionSchedTick ==
  /\ CanCall
  /\ AllWoken
  /\ NextTickTime <= processors[1].quantum_end
  /\ ContentionEvent(sched_tick(World, NextTickTime), "sched_tick", 0, 0, NextTickTime)

NextContention ==
  \/ \E t \in Threads : ContentionWakeup(t)
  \/ ContentionQuantumExpire
  \/ ContentionSchedTick

SpecContention == InitContention /\ [][NextContention]_vars

\* An event is taken off the queue and handled.  With threads that never block an event is
\* always pending (a wakeup at 0, then the processor's quantum expiry or the next tick), so
\* this step is possible exactly when NextContention is, and every step of NextContention is one.
EventHandled == CanCall /\ calls' = calls - 1

\* The engine's loop runs the next event as long as one is pending.
SpecContentionFair == SpecContention /\ WF_calls(EventHandled)


(***************************************************************************)
(* Bound threads on two processors, under the engine's handlers: a         *)
(* realtime thread bound to processor 1, a timeshare thread bound to       *)
(* processor 2, and an unbound thread that is realtime or timeshare.       *)
(***************************************************************************)
MaxBoundCalls == 5
BoundThirdModes == {TH_MODE_REALTIME, TH_MODE_TIMESHARE}

PopulationBound(third_mode) ==
  [ncpu |-> 2,
   thr |-> <<Thread_New(1, TH_MODE_REALTIME, BASEPRI_RTQUEUES, 1, RtComputation, RtConstraint),
             Thread_New(1, TH_MODE_TIMESHARE, BASEPRI_DEFAULT, 2, 0, 0),
             IF third_mode = TH_MODE_REALTIME
             THEN Thread_New(2, TH_MODE_REALTIME, BASEPRI_RTQUEUES, 0, RtComputation, RtConstraint)
             ELSE Thread_New(2, TH_MODE_TIMESHARE, BASEPRI_FOREGROUND, 0, 0, 0)>>]

InitBound == \E third_mode \in BoundThirdModes : InitPopulation(PopulationBound(third_mode), MaxBoundCalls)

SpecBound == InitBound /\ [][Next]_vars


(***************************************************************************)
(* A realtime thread running with realtime peers queued, as                *)
(* test_rt_prev_thread_keep_running_and_preempt of parity_harness.py sets  *)
(* it up: thread 1 is dispatched on the only processor, peers are made     *)
(* runnable with thread_setrun, then thread_select is called with thread 1 *)
(* as prev_thread.  The threads get their priorities and deadlines when    *)
(* they are created.                                                       *)
(***************************************************************************)
MaxPrevRTCalls == 4
PrevRTThreadIds == {1, 2, 3}
PrevRTPriorities == {BASEPRI_RTQUEUES, BASEPRI_RTQUEUES + 2}
\* With epsilon 100, a queued deadline of 1000 is not early enough against 1050 and is against 3000.
PrevRTDeadlines == {1000, 1050, 3000}

\* _new_rt_thread for every thread, _new_sched(num_cpus=1).
PrevRTWorld(pri, deadline) ==
  NewWorld([ncpu |-> 1,
            thr |-> [t \in PrevRTThreadIds |->
                       [Thread_New(1, TH_MODE_REALTIME, pri[t], 0, RtComputation, RtConstraint)
                          EXCEPT !.rt_deadline = deadline[t]]]])

InitPrevRT ==
  \E pri \in [PrevRTThreadIds -> PrevRTPriorities], deadline \in [PrevRTThreadIds -> PrevRTDeadlines] :
    InitWorld(PrevRTWorld(pri, deadline), MaxPrevRTCalls)

\* _dispatch_current(sched, proc, prev): thread_dispatch(proc, None, prev, ts).
PrevRTDispatch ==
  /\ CanCall
  /\ is_idle(processors[1])
  /\ threads[1].state = "WAITING"
  /\ Commit(thread_dispatch(World, 1, 0, 1, clock))
  /\ Called("thread_dispatch", 1, 1, 1)

\* sched.thread_setrun(peer, ts) once prev runs.
PrevRTSetrun(t) ==
  /\ t # 1
  /\ processors[1].active_thread = 1
  /\ threads[t].state = "WAITING"
  /\ CallThreadSetrun(t)

\* sched.thread_select(proc, ts, prev_thread=prev).
PrevRTSelect ==
  /\ CanCall
  /\ processors[1].active_thread = 1
  /\ threads[1].state = "RUNNING"
  /\ Selected(thread_select(World, 1, clock, 1), 1)

NextPrevRT ==
  \/ PrevRTDispatch
  \/ \E t \in Threads : PrevRTSetrun(t)
  \/ PrevRTSelect

SpecPrevRT == InitPrevRT /\ [][NextPrevRT]_vars


(***************************************************************************)
(* Root-bucket selection among three QoS lanes on one processor, in the    *)
(* manner of scenario S-3: a foreground, a default and a utility thread    *)
(* of three groups are enqueued at 0, and ClutchRoot.highest_root_bucket   *)
(* is called at times that never decrease, with the running thread as      *)
(* prev_thread when there is one (as hierarchy_thread_highest passes it):  *)
(* the processor may select and dispatch a thread at 0.  call.ret is the   *)
(* root bucket selected, call.how the branch of the EDF loop that returned *)
(* it.                                                                     *)
(***************************************************************************)
MaxLaneCalls == 14
LaneTimes == {0, 80000, 90000, 151000, 161000, 164000, 237000, 246000}
LanePriorities == <<BASEPRI_FOREGROUND, BASEPRI_DEFAULT, BASEPRI_UTILITY>>

LaneWorld ==
  NewWorld([ncpu |-> 1,
            thr |-> [t \in 1 .. Len(LanePriorities) |->
                       Thread_New(t, TH_MODE_TIMESHARE, LanePriorities[t], 0, 0, 0)]])

InitLanes == InitWorld(LaneWorld, MaxLaneCalls)

\* thread_setrun(thread, 0, TAILQ).
LaneEnqueue(t) ==
  /\ clock = 0
  /\ threads[t].state = "WAITING"
  /\ CallThreadSetrun(t)

\* The running thread, passed as prev_thread, and its root bucket; 0 and -1 for None.
LanePrevThread == processors[1].active_thread
LanePrevBucket == IF LanePrevThread = 0 THEN -1 ELSE threads[LanePrevThread].th_sched_bucket

\* The state after highest_root_bucket gave r.
LaneSelected(r) ==
  /\ Commit(r.w)
  /\ call' = [op |-> "highest_root_bucket", thread |-> LanePrevThread, processor |-> 1, ret |-> r.bucket,
              pre |-> "NONE", how |-> r.how, chose_prev |-> r.chose_prev, restarts |-> r.restarts,
              keyed |-> r.keyed]
  /\ calls' = calls - 1
  /\ UNCHANGED <<clock, event_vars, runtime_vars>>

\* clutch_root.highest_root_bucket(now, prev_bucket, prev_thread).
LaneSelect ==
  /\ CanCall
  /\ \A t \in Threads : threads[t].state # "WAITING"
  /\ LaneSelected(highest_root_bucket(World, clock, LanePrevBucket, LanePrevThread))

\* The idle processor selects and dispatches a thread.
LaneDispatch ==
  /\ clock = 0
  /\ SelectAndDispatch(1)

LaneAdvance ==
  /\ ~failed
  /\ \E now \in LaneTimes : now > clock /\ clock' = now
  /\ UNCHANGED <<sched_vars, call, calls, event_vars, runtime_vars>>

NextLanes ==
  \/ \E t \in Threads : LaneEnqueue(t)
  \/ LaneSelect
  \/ LaneDispatch
  \/ LaneAdvance

SpecLanes == InitLanes /\ [][NextLanes]_vars


(***************************************************************************)
(* Starvation avoidance on two processors: a foreground, two default and a *)
(* utility timeshare thread, each in a thread group of its own, driven     *)
(* through the facade at a few timestamps: thread_setrun of a WAITING      *)
(* thread at its start time, thread_select and thread_dispatch on an idle  *)
(* processor, thread_quantum_expire and thread_block of a running thread.  *)
(***************************************************************************)
MaxStarveCalls == 8

StarveTimes == {0, 80000, 160000, 170000}

StarvePriorities == <<BASEPRI_FOREGROUND, BASEPRI_DEFAULT, BASEPRI_DEFAULT, BASEPRI_UTILITY>>

StarveStartTimes == <<160000, 80000, 170000, 0>>

StarveWorld ==
  NewWorld([ncpu |-> 2,
            thr |-> [t \in 1 .. Len(StarvePriorities) |->
                       Thread_New(t, TH_MODE_TIMESHARE, StarvePriorities[t], 0, 0, 0)]])

InitStarve == InitWorld(StarveWorld, MaxStarveCalls)

StarveSetrun(t) == threads[t].state = "WAITING" /\ clock = StarveStartTimes[t] /\ CallThreadSetrun(t)

StarveAdvance ==
  /\ ~failed
  /\ \E now \in StarveTimes : now > clock /\ clock' = now
  /\ UNCHANGED <<sched_vars, call, calls, event_vars, runtime_vars>>

NextStarve ==
  \/ \E t \in Threads : StarveSetrun(t)
  \/ \E p \in Processors : SelectAndDispatch(p)
  \/ \E p \in Processors : HandleQuantumExpire(p)
  \/ \E t \in Threads : HandleThreadBlock(t)
  \/ StarveAdvance

SpecStarve == InitStarve /\ [][NextStarve]_vars


(***************************************************************************)
(* priority_queue.py: one ClutchBucketRunqueue on its own, the runqueue of *)
(* the foreground root bucket, with the clutch buckets of three thread     *)
(* groups as its items: enqueue at the tail or the head of a level of an   *)
(* item that is not queued, dequeue of a queued item from its level,       *)
(* rotate_at of a level.                                                   *)
(***************************************************************************)
MaxRunqCalls == 6

RunqPriorities == {MAXPRI_THROTTLE, BASEPRI_DEFAULT, BASEPRI_FOREGROUND}

InitRunq == InitWorld(LaneWorld, MaxRunqCalls)

Runq == clutch_root.scr_unbound_buckets[TH_BUCKET_SHARE_FG].scrb_clutch_buckets

RunqItems == {c \in DOMAIN clutch_buckets : c[2] = TH_BUCKET_SHARE_FG}

RunqQueued(c) == \E p \in DOMAIN Runq.queues : SeqContains(Runq.queues[p], c)

\* The state after an operation at level priority left the runqueue as rq.
RunqCalled(rq, op, priority) ==
  /\ clutch_root' = [clutch_root EXCEPT !.scr_unbound_buckets[TH_BUCKET_SHARE_FG].scrb_clutch_buckets = rq]
  /\ UNCHANGED <<threads, bucket_groups, clutch_buckets, clutches, rt_runq, processors, bound_runqs,
                 current_tick, failed>>
  /\ Called(op, 0, 0, priority)

RunqEnqueue(c, priority, head) ==
  /\ CanCall
  /\ ~RunqQueued(c)
  /\ RunqCalled(ClutchBucketRunqueue_enqueue(Runq, c, priority, head), "enqueue", priority)

RunqDequeue(c, priority) ==
  /\ CanCall
  /\ SeqContains(CBRQ_queue(Runq, priority), c)
  /\ RunqCalled(ClutchBucketRunqueue_dequeue(Runq, c, priority), "dequeue", priority)

RunqRotateAt(priority) ==
  /\ CanCall
  /\ RunqCalled(ClutchBucketRunqueue_rotate_at(Runq, priority), "rotate_at", priority)

NextRunq ==
  \/ \E c \in RunqItems, priority \in RunqPriorities, head \in BOOLEAN : RunqEnqueue(c, priority, head)
  \/ \E c \in RunqItems, priority \in RunqPriorities : RunqDequeue(c, priority)
  \/ \E priority \in RunqPriorities : RunqRotateAt(priority)

SpecRunq == InitRunq /\ [][NextRunq]_vars


(***************************************************************************)
(* Background work on one processor: two threads of the background bucket, *)
(* whose warp budget is 0, in thread groups of their own, and a utility    *)
(* thread, driven through the facade: thread_setrun of a WAITING thread,   *)
(* thread_select and thread_dispatch on the idle processor,                *)
(* thread_quantum_expire and thread_block of the running thread.           *)
(***************************************************************************)
MaxBackgroundCalls == 5

BackgroundPriorities == <<MAXPRI_THROTTLE, MAXPRI_THROTTLE, BASEPRI_UTILITY>>

BackgroundWorld ==
  NewWorld([ncpu |-> 1,
            thr |-> [t \in 1 .. Len(BackgroundPriorities) |->
                       Thread_New(t, TH_MODE_TIMESHARE, BackgroundPriorities[t], 0, 0, 0)]])

InitBackground == InitWorld(BackgroundWorld, MaxBackgroundCalls)

NextBackground ==
  \/ \E t \in Threads : SetrunWaiting(t)
  \/ \E p \in Processors : SelectAndDispatch(p)
  \/ \E p \in Processors : HandleQuantumExpire(p)
  \/ \E t \in Threads : HandleThreadBlock(t)
  \/ AdvanceClock

SpecBackground == InitBackground /\ [][NextBackground]_vars


(***************************************************************************)
(* Properties.  What a thread occupies in the runqueues, and the counters  *)
(* kept beside them.                                                       *)
(***************************************************************************)
SeqCount(s, x) == Cardinality({i \in DOMAIN s : s[i] = x})

HeapCount(q, item) == Cardinality({e \in q.heap : e.item = item})

\* How often thread t occurs in each runqueue.
RunqueueEntries(t) ==
  [thread_runq |-> [c \in DOMAIN clutch_buckets |-> HeapCount(clutch_buckets[c].scb_thread_runq, t)],
   clutchpri_prioq |-> [c \in DOMAIN clutch_buckets |-> HeapCount(clutch_buckets[c].scb_clutchpri_prioq, t)],
   timeshare_threads |-> [c \in DOMAIN clutch_buckets |-> SeqCount(clutch_buckets[c].scb_timeshare_threads, t)],
   bound |-> [p \in DOMAIN bound_runqs |-> HeapCount(bound_runqs[p], t)],
   rt |-> [i \in 0 .. MAXPRI |-> SeqCount(RT_band(rt_runq, i), t)]]

InRunqueue(t) ==
  \/ \E c \in DOMAIN clutch_buckets : HeapCount(clutch_buckets[c].scb_thread_runq, t) > 0
  \/ \E p \in DOMAIN bound_runqs : HeapCount(bound_runqs[p], t) > 0
  \/ \E i \in DOMAIN rt_runq.queues : SeqCount(rt_runq.queues[i], t) > 0

\* The thread counts of the hierarchy: clutch bucket, bucket group, clutch and root.
ThrCounts ==
  [scb_thr_count |-> [c \in DOMAIN clutch_buckets |-> clutch_buckets[c].scb_thr_count],
   scbg_pending_count |-> [c \in DOMAIN bucket_groups |-> bucket_groups[c].scbg_pending_count],
   sc_thr_count |-> clutches,
   scr_thr_count |-> clutch_root.scr_thr_count]

\* The run count of every clutch bucket group.
RunCounts == [c \in DOMAIN bucket_groups |-> bucket_groups[c].scbg_blocked_count]

\* The step is a call of one of the operations ops on thread t.
IsCall(ops, t) == calls' # calls /\ call'.op \in ops /\ call'.thread = t

\* C1: thread_setrun on a thread that is already RUNNABLE and enqueued is a no-op: the thread
\* is not inserted a second time into any runqueue, and the thread counts and the run counts
\* are unchanged.
C1_SetrunOfRunnableIsNoOp ==
  [][\A t \in Threads :
       (IsCall({"thread_setrun"}, t) /\ threads[t].state = "RUNNABLE" /\ InRunqueue(t))
       => /\ RunqueueEntries(t)' = RunqueueEntries(t)
          /\ ThrCounts' = ThrCounts
          /\ RunCounts' = RunCounts]_vars

\* C2: thread_remove on a thread that is not runnable (WAITING, RUNNING, or RUNNABLE but already
\* out of its runqueue) is a no-op: every runqueue, the thread counts, the root buckets and the
\* root priority are unchanged.
C2_RemoveOfNonRunnableIsNoOp ==
  [][\A t \in Threads :
       (IsCall({"thread_remove"}, t) /\ ~(threads[t].state = "RUNNABLE" /\ InRunqueue(t)))
       => /\ UNCHANGED <<clutch_buckets, clutches, clutch_root, rt_runq, bound_runqs>>
          /\ ThrCounts' = ThrCounts]_vars

\* C3: thread_wakeup on a thread that is not WAITING returns None and changes nothing: no
\* enqueue, no run-count increment, no change of an RT thread's rt_deadline.
C3_WakeupOfNonWaitingChangesNothing ==
  [][\A t \in Threads :
       (IsCall({"thread_wakeup", "raw_thread_wakeup"}, t) /\ threads[t].state # "WAITING")
       => UNCHANGED sched_vars /\ call'.ret = 0]_vars

\* C3 happens: a wakeup has been made, later than its last one, of a realtime thread that was
\* running with a deadline.
C3_WakeupOfRunningRealtimeThread ==
  /\ call.op = "raw_thread_wakeup"
  /\ call.pre = "RUNNING"
  /\ clock > 0
  /\ is_realtime(threads[call.thread])
  /\ threads[call.thread].rt_deadline < clock + threads[call.thread].rt_constraint
  /\ \E p \in Processors : processors[p].active_thread = call.thread

\* C4: thread_block(thread, processor, now) when thread is not the RUNNING active thread of
\* processor fails with an illegal-state error and is not carried out.
C4_BlockOfNonOwnerFails ==
  [][\A t \in Threads :
       (IsCall({"raw_thread_block"}, t)
          /\ ~(threads[t].state = "RUNNING" /\ processors[call'.processor].active_thread = t))
       => /\ failed'
          /\ UNCHANGED <<threads, bucket_groups, clutch_buckets, clutches, clutch_root, rt_runq,
                         processors, bound_runqs, current_tick>>]_vars


\* The threads of clutch bucket group c = (thread group, bucket) that are RUNNABLE or RUNNING.
RunnableOrRunning(c) ==
  {t \in Threads : /\ threads[t].tg = c[1]
                   /\ threads[t].th_sched_bucket = c[2]
                   /\ threads[t].state \in {"RUNNABLE", "RUNNING"}}

\* Those of them the clutch hierarchy schedules: neither realtime nor bound to a processor.
ClutchRunnableOrRunning(c) ==
  {t \in RunnableOrRunning(c) : ~is_realtime(threads[t]) /\ threads[t].bound_processor = 0}

DecayLaw(th) ==
  IF th.pri_shift < INT8_MAX
  THEN th.sched_pri = Max(MINPRI, Min(th.base_pri - Shr(th.sched_usage, th.pri_shift), th.max_priority))
  ELSE th.sched_pri = th.base_pri

\* C6 as stated: between calls, every thread's sched_pri obeys the decay law, also right after
\* CPU usage has been charged to it.
C6_DecayLawAlways == \A t \in Threads : DecayLaw(threads[t])

\* C6 amended: whenever a call recomputes a thread's priority (sched_stamp moves to the current
\* tick), the thread's sched_pri obeys the decay law for the sched_usage and pri_shift it has
\* after the call.
C6_DecayLawAfterRecompute ==
  [][\A t \in Threads :
       threads'[t].sched_stamp # threads[t].sched_stamp => DecayLaw(threads'[t])]_vars

\* C6 happens: a thread has been recomputed after being charged under a finite pri_shift, and
\* its priority is decayed below its base priority.
C6_DecayedPriority ==
  \E t \in Threads :
    /\ threads[t].sched_stamp = current_tick
    /\ current_tick > 0
    /\ threads[t].pri_shift < INT8_MAX
    /\ Shr(threads[t].sched_usage, threads[t].pri_shift) > 0
    /\ threads[t].sched_pri = threads[t].base_pri - Shr(threads[t].sched_usage, threads[t].pri_shift)

\* C7: a thread_setrun made while current_tick equals the thread's sched_stamp (here the one
\* thread_wakeup makes for a WAITING thread) leaves the thread's sched_pri, sched_usage and
\* pri_shift as they were, even when sched_usage or the bucket group's pri_shift changed since
\* the last recompute.
C7_SameTickSetrunKeepsPriority ==
  [][\A t \in Threads :
       (/\ IsCall({"thread_wakeup"}, t)
        /\ threads[t].state = "WAITING"
        /\ threads[t].sched_stamp = current_tick)
       => /\ threads'[t].sched_pri = threads[t].sched_pri
          /\ threads'[t].sched_usage = threads[t].sched_usage
          /\ threads'[t].pri_shift = threads[t].pri_shift]_vars

\* C7 happens: a thread has been woken, and so set to run, in the tick of its last recompute
\* with a sched_pri that the decay law would no longer give it.
C7_SetrunWithStalePriority ==
  /\ call.op = "thread_wakeup"
  /\ call.pre = "WAITING"
  /\ threads[call.thread].sched_stamp = current_tick
  /\ ~DecayLaw(threads[call.thread])


\* The thread of S-5, asleep as seeded: base_pri 47, pri_shift 1, never recomputed.
S5Sleeper ==
  /\ threads[1].base_pri = S5Scenario.base_pri
  /\ threads[1].pri_shift = S5Scenario.pri_shift
  /\ threads[1].sched_stamp = 0
  /\ threads[1].state = "WAITING"

\* C8 as stated: in S-5 each of the three ticks applies one decay step of SCHED_DECAY_SHIFTS to
\* the sleeping thread's sched_usage, and the thread_setrun after the third tick leaves
\* sched_pri = 39.
C8_S5_EachTickAgesSleeper ==
  [][/\ (S5Sleeper /\ calls' # calls /\ call'.op = "sched_tick")
          => threads'[1].sched_usage = AgeUsage(threads[1].sched_usage, 1)
     /\ (S5Sleeper /\ current_tick = 3 /\ IsCall({"thread_setrun"}, 1))
          => threads'[1].sched_pri = 39]_vars

\* C8 amended: in S-5 the ticks leave the sleeping thread as it is (sched_usage stays 64), and
\* the thread_setrun after the third tick ages it once by the SCHED_DECAY_SHIFTS entry for
\* three ticks, 64 -> 16, stamps it with tick 3 and leaves sched_pri = 47 - (16 >> 1) = 39.
C8_S5_SetrunAgesSleeperOnce ==
  [][/\ (S5Sleeper /\ calls' # calls /\ call'.op = "sched_tick")
          => threads'[1] = threads[1] /\ threads[1].sched_usage = S5Scenario.sched_usage
     /\ (S5Sleeper /\ current_tick = 3 /\ IsCall({"thread_setrun"}, 1))
          => /\ threads'[1].sched_usage = 16
             /\ threads'[1].sched_stamp = 3
             /\ threads'[1].pri_shift = 1
             /\ threads'[1].sched_pri = 39]_vars

\* C8 happens: the S-5 thread has been set to run at now = 400000, after the third tick.
C8_S5_SetrunAfterThreeTicks ==
  /\ call.op = "thread_setrun"
  /\ call.pre = "WAITING"
  /\ clock = 400000
  /\ current_tick = 3
  /\ threads[1].base_pri = S5Scenario.base_pri
  /\ threads[1].state = "RUNNABLE"
  /\ InRunqueue(1)
  /\ threads[1].sched_pri = 39


\* The order in which repeated pop_max hands out the entries of q.
RECURSIVE DequeueOrder(_)
DequeueOrder(q) ==
  IF q.heap = {} THEN <<>>
  ELSE <<StablePriorityQueue_peek_max(q)>> \o DequeueOrder(StablePriorityQueue_pop_max(q))

DequeuesBefore(q, a, b) ==
  \E i, j \in DOMAIN DequeueOrder(q) :
    i < j /\ DequeueOrder(q)[i] = a /\ DequeueOrder(q)[j] = b

\* C9: of two queued entries with equal sched_pri a preempted one dequeues before a
\* non-preempted one; of two preempted ones with equal stamp the later inserted dequeues first;
\* of two non-preempted ones with equal stamp the earlier inserted dequeues first; after any
\* interleaving of inserts, removes, pops and priority refreshes.
C9_StableRunqOrdering ==
  \A a, b \in Threads :
    (/\ a # b
     /\ threads[a].state = "RUNNABLE"
     /\ threads[b].state = "RUNNABLE"
     /\ threads[a].sched_pri = threads[b].sched_pri
     /\ \/ threads[a].preempted /\ ~threads[b].preempted
        \/ /\ threads[a].preempted /\ threads[b].preempted
           /\ threads[a].stamp = threads[b].stamp
           /\ threads[a].seq > threads[b].seq
        \/ /\ ~threads[a].preempted /\ ~threads[b].preempted
           /\ threads[a].stamp = threads[b].stamp
           /\ threads[a].seq < threads[b].seq)
    => DequeuesBefore(bound_runqs[1], a, b)

\* C9 happens: a refresh has brought to one priority three queued entries, two preempted with
\* equal stamp and one not preempted that was inserted before them.
C9_RefreshedTies ==
  /\ call.op = "refresh_priorities"
  /\ \E a, b, c \in Threads :
       /\ threads[a].state = "RUNNABLE" /\ threads[b].state = "RUNNABLE" /\ threads[c].state = "RUNNABLE"
       /\ threads[a].sched_pri = threads[b].sched_pri /\ threads[b].sched_pri = threads[c].sched_pri
       /\ threads[a].preempted /\ threads[b].preempted /\ ~threads[c].preempted
       /\ threads[a].stamp = threads[b].stamp
       /\ threads[c].seq < threads[b].seq /\ threads[b].seq < threads[a].seq
       /\ DequeueOrder(bound_runqs[1]) = <<a, b, c>>


\* The highest non-empty band of the RT queue, and the band of the thread with the earliest
\* deadline of all queued threads, the higher band when bands tie.
HighestBand == CHOOSE i \in DOMAIN rt_runq.queues : \A j \in DOMAIN rt_runq.queues : i >= j

EarliestBand ==
  CHOOSE i \in DOMAIN rt_runq.queues :
    \E m \in DOMAIN rt_runq.queues[i] :
      \A j \in DOMAIN rt_runq.queues : \A n \in DOMAIN rt_runq.queues[j] :
        \/ threads[rt_runq.queues[i][m]].rt_deadline < threads[rt_runq.queues[j][n]].rt_deadline
        \/ /\ threads[rt_runq.queues[i][m]].rt_deadline = threads[rt_runq.queues[j][n]].rt_deadline
           /\ i >= j

\* The override gate for ed and hi, the heads of the earliest and the highest band.
EdfGate(ed, hi) ==
  threads[ed].rt_computation + threads[hi].rt_computation + RT_DEADLINE_EPSILON < threads[hi].rt_constraint

\* C10: RTQueue.dequeue returns the head of a lower band holding the global earliest deadline
\* (the higher band when deadlines tie) if and only if ed.rt_computation + hi.rt_computation +
\* epsilon < hi.rt_constraint, hi being the head of the highest non-empty band; otherwise it
\* returns the head of the highest non-empty band.
C10_EdfOverrideGate ==
  [][(calls' # calls /\ call'.op = "dequeue" /\ DOMAIN rt_runq.queues # {})
       => LET ed == rt_runq.queues[EarliestBand][1]
              hi == rt_runq.queues[HighestBand][1]
          IN call'.ret = IF EarliestBand # HighestBand /\ EdfGate(ed, hi) THEN ed ELSE hi]_vars

\* C10 happens: a dequeue has returned a thread of a lower band while the head of a higher band,
\* whose deadline is later, stays queued.
C10_LowerBandDequeued ==
  /\ call.op = "dequeue"
  /\ call.ret # 0
  /\ \E i \in DOMAIN rt_runq.queues :
       /\ i > threads[call.ret].sched_pri - BASEPRI_RTQUEUES
       /\ threads[rt_runq.queues[i][1]].rt_deadline > threads[call.ret].rt_deadline
       /\ EdfGate(call.ret, rt_runq.queues[i][1])


\* C11: thread_quantum_expire enqueues the expired thread again exactly when thread_select gave
\* another thread, which is then the one on the processor; when the expired thread itself is
\* returned it is on the same processor again, RUNNING, and in no runqueue.
C11_QuantumExpireReenqueue ==
  [][\A t \in Threads :
       IsCall({"thread_quantum_expire"}, t) =>
         \E new_thread \in Threads :
           /\ call'.ret = new_thread
           /\ processors'[call'.processor].active_thread = new_thread
           /\ threads'[new_thread].state = "RUNNING"
           /\ ~InRunqueue(new_thread)'
           /\ new_thread # t => InRunqueue(t)' /\ threads'[t].state = "RUNNABLE"]_vars

\* C11 happens: a quantum expiry has put another thread on the processor, and the expired
\* thread is RUNNABLE in a runqueue.
C11_ExpiredThreadReenqueued ==
  /\ call.op = "thread_quantum_expire"
  /\ call.ret # call.thread
  /\ processors[call.processor].active_thread = call.ret
  /\ threads[call.thread].state = "RUNNABLE"
  /\ InRunqueue(call.thread)


\* C12: thread_block leaves the blocked thread with quantum_remaining 0; a thread that is not
\* running and has no quantum keeps none until it is dispatched, and then starts with the whole
\* quantum of its bucket (rt_computation for a realtime thread), never with a remainder.
C12_BlockedThreadGetsFreshQuantum ==
  [][\A t \in Threads :
       /\ IsCall({"thread_block"}, t) =>
            threads'[t].state = "WAITING" /\ threads'[t].quantum_remaining = 0
       /\ threads[t].state \in {"WAITING", "RUNNABLE"} /\ threads[t].quantum_remaining = 0 =>
            threads'[t].quantum_remaining =
              IF threads'[t].state = "RUNNING" THEN initial_quantum(threads'[t]) ELSE 0]_vars

\* C12 happens: a thread that has used the CPU and was blocked since is woken onto the
\* processor, where it runs with the whole quantum of its bucket.
C12_WokenThreadRunsFreshQuantum ==
  /\ call.op = "thread_wakeup"
  /\ call.pre = "WAITING"
  /\ threads[call.thread].state = "RUNNING"
  /\ threads[call.thread].cpu_usage > 0
  /\ threads[call.thread].quantum_remaining = initial_quantum(threads[call.thread])


\* The step is a call that preempted processor p: old_thread ran there, the call named p to
\* be preempted, and another thread is on p afterwards.
Preempts(p, old_thread) ==
  /\ calls' # calls
  /\ call'.op \in {"thread_wakeup", "rt_period_start"}
  /\ call'.ret = p
  /\ processors[p].active_thread = old_thread
  /\ processors'[p].active_thread # old_thread

\* Processor p would let a preempted old_thread keep what is left of its quantum.
KeepsQuantum(p, old_thread) ==
  processors[p].first_timeslice /\ processors[p].starting_pri <= threads[old_thread].sched_pri

\* How long old_thread has been on processor p.
RanFor(p) == clock - processors[p].last_dispatch_time

\* C13 as stated: a thread preempted in its first timeslice at a priority not below the one it
\* started with is enqueued again with its initial quantum less the time since its last dispatch.
C13_RemainderOfInitialQuantum ==
  [][\A p \in Processors, old_thread \in Threads :
       Preempts(p, old_thread) /\ KeepsQuantum(p, old_thread) =>
         /\ InRunqueue(old_thread)'
         /\ threads'[old_thread].quantum_remaining = initial_quantum(threads[old_thread]) - RanFor(p)]_vars

\* C13 amended: such a thread is enqueued again, RUNNABLE, with the quantum it held when it was
\* last dispatched less the time since that dispatch, and not less than 0; a thread waiting in
\* a runqueue keeps its quantum, and the step that puts it on a processor leaves it running
\* with exactly that quantum if there is any left, and with the whole quantum otherwise.
C13_PreemptedThreadKeepsRemainder ==
  [][\A old_thread \in Threads :
       /\ \A p \in Processors :
            Preempts(p, old_thread) /\ KeepsQuantum(p, old_thread) =>
              /\ InRunqueue(old_thread)'
              /\ threads'[old_thread].state = "RUNNABLE"
              /\ threads'[old_thread].quantum_remaining =
                   Max(0, threads[old_thread].quantum_remaining - RanFor(p))
       /\ threads[old_thread].state = "RUNNABLE" /\ threads'[old_thread].state \in {"RUNNABLE", "RUNNING"} =>
            threads'[old_thread].quantum_remaining =
              IF threads'[old_thread].state = "RUNNING" /\ threads[old_thread].quantum_remaining <= 0
              THEN initial_quantum(threads[old_thread])
              ELSE threads[old_thread].quantum_remaining]_vars

\* C13 happens: the thread on the processor blocked, and the thread put there in its place runs
\* on with what a preemption left of its quantum.
C13_ResumedWithRemainder ==
  /\ call.op = "thread_block"
  /\ call.ret # 0
  /\ processors[call.processor].active_thread = call.ret
  /\ threads[call.ret].state = "RUNNING"
  /\ threads[call.ret].quantum_remaining > 0
  /\ threads[call.ret].quantum_remaining < initial_quantum(threads[call.ret])


\* The threads queued in the thread runqueue of clutch bucket c.
QueuedThreads(c) == {e.item : e \in clutch_buckets[c].scb_thread_runq.heap}

\* The thread runqueue of clutch bucket c hands out its threads by descending sched_pri.
DequeuesByPriority(c) ==
  \A a, b \in QueuedThreads(c) :
    DequeuesBefore(clutch_buckets[c].scb_thread_runq, a, b) => threads[a].sched_pri >= threads[b].sched_pri

\* C14: after sched_tick every queued timeshare thread holds the sched_pri that compute_sched_pri
\* gives for its aged usage and its group's pri_shift, and the thread runqueue of its clutch
\* bucket dequeues in the order of the new priorities.
C14_TickReprioritizesRunqueue ==
  [][IsCall({"sched_tick"}, 0) =>
       \A c \in DOMAIN clutch_buckets :
         /\ \A t \in QueuedThreads(c) :
              is_timeshare(threads[t]) =>
                /\ threads'[t].sched_pri =
                     compute_sched_pri(tick_aged_thread(threads[t], current_tick', bucket_groups'[c].scbg_pri_shift))
                /\ threads'[t].sched_pri = compute_sched_pri(threads'[t])
         /\ DequeuesByPriority(c)']_vars

\* C14 happens: after a sched_tick a queued thread that has used the CPU holds a priority
\* decayed below that of a peer enqueued after it, and the peer dequeues first.
C14_DecayedThreadDequeuesLater ==
  /\ call.op = "sched_tick"
  /\ \E c \in DOMAIN clutch_buckets : \E ea, eb \in clutch_buckets[c].scb_thread_runq.heap :
       /\ ea.sq > 0
       /\ ea.sq < eb.sq
       /\ threads[ea.item].base_pri = threads[eb.item].base_pri
       /\ threads[ea.item].sched_pri < threads[eb.item].sched_pri
       /\ threads[ea.item].sched_pri = compute_sched_pri(threads[ea.item])
       /\ threads[ea.item].sched_stamp = current_tick
       /\ DequeuesBefore(clutch_buckets[c].scb_thread_runq, eb.item, ea.item)


\* The processors whose running thread has a sched_pri strictly below pri.
LowerPriorityProcessors(pri) ==
  {p \in Processors : processors[p].active_thread # 0 /\ threads[processors[p].active_thread].sched_pri < pri}

\* The processors whose running thread is not realtime and has the sched_pri pri.
EqualPriorityProcessors(pri) ==
  {p \in Processors : /\ processors[p].active_thread # 0
                      /\ ~is_realtime(threads[processors[p].active_thread])
                      /\ threads[processors[p].active_thread].sched_pri = pri}

\* Every processor runs a thread.
NoIdleProcessor == \A p \in Processors : processors[p].active_thread # 0

\* The step enqueues the unbound, non-realtime thread t by thread_setrun while no processor is idle.
EnqueuesOnBusyProcessors(t) ==
  /\ IsCall({"thread_setrun", "thread_setrun_preempt"}, t)
  /\ NoIdleProcessor
  /\ ~is_realtime(threads[t])
  /\ threads[t].bound_processor = 0

\* C15: for an unbound non-realtime thread enqueued while no processor is idle, thread_setrun
\* returns a processor running a thread of strictly lower priority exactly when there is one and
\* the options hold SCHED_PREEMPT or the thread's sched_pri is at least BASEPRI_PREEMPT; with
\* neither it returns None.
C15_PreemptionNeedsFlagOrUrgentPriority ==
  [][\A t \in Threads :
       EnqueuesOnBusyProcessors(t) =>
         /\ call'.ret \in LowerPriorityProcessors(threads'[t].sched_pri) <=>
              /\ LowerPriorityProcessors(threads'[t].sched_pri) # {}
              /\ call'.op = "thread_setrun_preempt" \/ threads'[t].sched_pri >= BASEPRI_PREEMPT
         /\ call'.op = "thread_setrun" /\ threads'[t].sched_pri < BASEPRI_PREEMPT => call'.ret = 0]_vars

\* C15 happens: enqueued without SCHED_PREEMPT while both processors were busy, a thread at or
\* above BASEPRI_PREEMPT got a processor running a thread of lower priority as its target.
C15_UrgentThreadPreemptsWithoutFlag ==
  /\ call.op = "thread_setrun"
  /\ call.pre = "WAITING"
  /\ NoIdleProcessor
  /\ threads[call.thread].sched_pri >= BASEPRI_PREEMPT
  /\ call.ret # 0
  /\ call.ret \in LowerPriorityProcessors(threads[call.thread].sched_pri)

\* C16: a processor whose running non-realtime thread has the priority of the newly enqueued
\* thread is returned only when the options hold SCHED_PREEMPT; with the flag, no processor idle
\* and none running a lower priority, such a processor is returned; without the flag and with
\* none running a lower priority no target is returned, whatever the thread's priority.
C16_EqualPriorityNeedsFlag ==
  [][\A t \in Threads :
       EnqueuesOnBusyProcessors(t) =>
         /\ call'.ret \in EqualPriorityProcessors(threads'[t].sched_pri) => call'.op = "thread_setrun_preempt"
         /\ LowerPriorityProcessors(threads'[t].sched_pri) = {} =>
              IF call'.op = "thread_setrun_preempt" /\ EqualPriorityProcessors(threads'[t].sched_pri) # {}
              THEN call'.ret \in EqualPriorityProcessors(threads'[t].sched_pri)
              ELSE call'.ret = 0]_vars

\* C16 happens: a thread at or above BASEPRI_PREEMPT was enqueued without SCHED_PREEMPT while a
\* processor ran a thread of its priority and none ran a lower one, and no target was returned.
C16_EqualUrgentThreadDoesNotPreempt ==
  /\ call.op = "thread_setrun"
  /\ call.pre = "WAITING"
  /\ NoIdleProcessor
  /\ threads[call.thread].sched_pri >= BASEPRI_PREEMPT
  /\ call.ret = 0
  /\ EqualPriorityProcessors(threads[call.thread].sched_pri) # {}
  /\ LowerPriorityProcessors(threads[call.thread].sched_pri) = {}


(***************************************************************************)
(* C17: stale timer events are discarded by the driver                     *)
(***************************************************************************)
\* The event the driver pops next is a quantum expiry that is no longer the one armed on its
\* processor: another thread (or none) runs there, or quantum_end has moved.
StaleQuantumExpire ==
  /\ event_queue # <<>>
  /\ NextEvent.event_type = "QUANTUM_EXPIRE"
  /\ \/ processors[NextEvent.processor_id].active_thread # NextEvent.thread_id
     \/ processors[NextEvent.processor_id].quantum_end # NextEvent.timestamp

\* The event the driver pops next is a block whose time is not the deadline recorded for its thread.
StaleThreadBlock ==
  /\ event_queue # <<>>
  /\ NextEvent.event_type = "THREAD_BLOCK"
  /\ thread_block_deadlines[NextEvent.thread_id] # -1
  /\ thread_block_deadlines[NextEvent.thread_id] # NextEvent.timestamp

\* C17: when the driver handles a QUANTUM_EXPIRE event whose (thread, quantum_end) is not that of
\* its processor, or a THREAD_BLOCK event whose time is not the block deadline recorded for its
\* thread, it calls no core operation and no scheduler state changes.
C17_StaleEventsDiscarded ==
  [][(calls' # calls /\ (StaleQuantumExpire \/ StaleThreadBlock))
       => /\ UNCHANGED sched_vars
          /\ call'.op \in {"quantum_expire_discarded", "thread_block_discarded"}]_vars

\* A quantum expiry armed for the running thread's earlier slice has been discarded: the thread
\* runs on the processor again, under a later quantum_end.
C17_StaleQuantumExpireDiscarded ==
  /\ call.op = "quantum_expire_discarded"
  /\ processors[call.processor].active_thread = call.thread
  /\ processors[call.processor].quantum_end > clock

\* A block event of an earlier slice has been discarded while its thread runs towards the
\* deadline recorded since.
StaleThreadBlockDiscarded ==
  /\ call.op = "thread_block_discarded"
  /\ threads[call.thread].state = "RUNNING"
  /\ thread_block_deadlines[call.thread] > clock


(***************************************************************************)
(* C18: the `now` values the runtime passes to the core                    *)
(***************************************************************************)
\* C18: the `now` values HumanTaskScheduler passes to the core never decrease from one core call
\* to the next, within an operation and from one operation to the next.
C18_NowNeverDecreases ==
  \A i \in 1 .. Len(now_log) - 1 : now_log[i] <= now_log[i + 1]


(***************************************************************************)
(* C19: scenario S-3, the warp window                                      *)
(***************************************************************************)
\* The root bucket selection made last, at time now, was the first one, or any one.
S3FirstSelectionAt(now) == call.op = "highest_root_bucket" /\ clock = now /\ calls = MaxS3Calls - 3
S3SelectionAt(now) == call.op = "highest_root_bucket" /\ clock = now

FG == clutch_root.scr_unbound_buckets[TH_BUCKET_SHARE_FG]
DF == clutch_root.scr_unbound_buckets[TH_BUCKET_SHARE_DF]

\* C19 as stated: the selection at t=5 returns FG and sets FG.warped_deadline to 8005; a
\* selection at t=8010 leaves FG.warp_remaining = 0, FG's warp_available bit cleared, and returns DF.
C19_S3_WarpWindowAsStated ==
  /\ S3FirstSelectionAt(5) => call.ret = TH_BUCKET_SHARE_FG /\ FG.scrb_warped_deadline = 8005
  /\ S3SelectionAt(8010)
       => /\ FG.scrb_warp_remaining = 0
          /\ TH_BUCKET_SHARE_FG \notin clutch_root.scr_unbound_warp_available
          /\ call.ret = TH_BUCKET_SHARE_DF


\* D's enqueue at t=0 set the DF deadline to the DF worst-case latency; the FG warp is 8000.
S3DeadlineDF == ROOT_BUCKET_WCEL_US[TH_BUCKET_SHARE_DF + 1]
S3WarpFG == ROOT_BUCKET_WARP_US[TH_BUCKET_SHARE_FG + 1]

\* C19 amended: FG (deadline 5) is the earliest-deadline bucket, so every selection before DF's
\* deadline (75000), those at t=5 and t=8010 included, returns FG without touching its warp
\* (warped_deadline unused, warp_remaining 8000, warp_available bit set); a warp window of FG
\* opens only at a selection from 75000 on, and DF is returned only once that window has ended,
\* with FG.warp_remaining = 0 and FG's warp_available bit cleared.
C19_S3_FGWinsByDeadlineBeforeWarp ==
  call.op = "highest_root_bucket"
    => /\ clock < S3DeadlineDF
            => /\ call.ret = TH_BUCKET_SHARE_FG
               /\ FG.scrb_warped_deadline = SCHED_CLUTCH_INVALID_TIME_64
               /\ FG.scrb_warp_remaining = S3WarpFG
               /\ TH_BUCKET_SHARE_FG \in clutch_root.scr_unbound_warp_available
       /\ FG.scrb_warped_deadline # SCHED_CLUTCH_INVALID_TIME_64
            => FG.scrb_warped_deadline >= S3DeadlineDF + S3WarpFG
       /\ call.ret = TH_BUCKET_SHARE_DF
            => /\ FG.scrb_warp_remaining = 0
               /\ TH_BUCKET_SHARE_FG \notin clutch_root.scr_unbound_warp_available
               /\ FG.scrb_warped_deadline <= clock
       /\ call.ret \in {TH_BUCKET_SHARE_FG, TH_BUCKET_SHARE_DF}

\* The selection at t=8010, after one at t=5, has returned FG with its warp untouched.
C19_S3_SelectionAt8010ReturnsFG ==
  /\ S3SelectionAt(8010)
  /\ calls = MaxS3Calls - 4
  /\ call.ret = TH_BUCKET_SHARE_FG
  /\ FG.scrb_warp_remaining = S3WarpFG
  /\ FG.scrb_deadline = 8010

\* A selection after the end of FG's warp window has returned DF.
S3WarpExpiredReturnsDF ==
  /\ call.op = "highest_root_bucket"
  /\ call.ret = TH_BUCKET_SHARE_DF
  /\ FG.scrb_warp_remaining = 0


(***************************************************************************)
(* C20: scenario S-1, a single timeshare thread on a single CPU            *)
(***************************************************************************)
\* The scenario's thread (base_pri 31), selected and dispatched at now = 1.
S1Scenario == threads[1].base_pri = BASEPRI_DEFAULT /\ clock = 1

\* C20 as stated: once T is selected and dispatched at now = 1 and the driver has armed its
\* quantum, T is RUNNING with quantum_remaining 6000, CPU0.quantum_end is 7000 and
\* CPU0.first_timeslice is true.
C20_S1_QuantumEndAsStated ==
  (S1Scenario /\ call.op = "schedule_quantum_expire")
    => /\ threads[1].state = "RUNNING"
       /\ threads[1].quantum_remaining = 6000
       /\ processors[1].quantum_end = 7000
       /\ processors[1].first_timeslice

\* C20 amended: thread_select returns T with chose_prev false; after thread_dispatch T is the
\* processor's RUNNING thread with its bucket's full quantum (6000 at base_pri 31) and
\* first_timeslice true, quantum_end still 0: thread_dispatch does not set it; the driver's
\* _schedule_quantum_expire then sets quantum_end to now + quantum_remaining (6001 at now = 1).
C20_S1_QuantumEndIsNowPlusQuantum ==
  /\ call.op = "thread_select" => call.ret = 1 /\ ~call.chose_prev
  /\ call.op \in {"thread_dispatch", "schedule_quantum_expire"}
       => /\ threads[1].state = "RUNNING"
          /\ processors[1].active_thread = 1
          /\ threads[1].quantum_remaining = THREAD_QUANTUM_US[threads[1].th_sched_bucket + 1]
          /\ processors[1].first_timeslice
          /\ S1Scenario => threads[1].quantum_remaining = 6000
  /\ call.op = "thread_dispatch" => processors[1].quantum_end = 0
  /\ call.op = "schedule_quantum_expire"
       => /\ processors[1].quantum_end = clock + threads[1].quantum_remaining
          /\ S1Scenario => processors[1].quantum_end = 6001

\* The scenario has run to its end: T dispatched at now = 1 and its quantum armed to end at 6001.
C20_S1_DispatchedAtOne ==
  /\ S1Scenario
  /\ call.op = "schedule_quantum_expire"
  /\ threads[1].state = "RUNNING"
  /\ processors[1].quantum_end = 6001



\* The processors on which thread t is the active thread.
ActiveOn(t) == {p \in Processors : processors[p].active_thread = t}

QueuedCount(t) ==
  Cardinality({ce \in (DOMAIN clutch_buckets) \X UNION {clutch_buckets[c].scb_thread_runq.heap : c \in DOMAIN clutch_buckets} :
                 ce[2] \in clutch_buckets[ce[1]].scb_thread_runq.heap /\ ce[2].item = t})
    + Cardinality({pe \in (DOMAIN bound_runqs) \X UNION {bound_runqs[p].heap : p \in DOMAIN bound_runqs} :
                     pe[2] \in bound_runqs[pe[1]].heap /\ pe[2].item = t})
    + Cardinality({bi \in (DOMAIN rt_runq.queues) \X (1 .. Cardinality(Threads) + 2) :
                     bi[2] \in DOMAIN rt_runq.queues[bi[1]] /\ rt_runq.queues[bi[1]][bi[2]] = t})

QueuedThreadsOf(c) ==
  {t \in Threads : /\ threads[t].tg = c[1]
                   /\ threads[t].th_sched_bucket = c[2]
                   /\ threads[t].state = "RUNNABLE"
                   /\ ~is_realtime(threads[t]) /\ threads[t].bound_processor = 0
                   /\ ~(SelectionPending /\ call.ret = t)}

\* C23: after every call, for every clutch bucket, thr_count, |thread_runq|, |clutchpri_prioq| and
\* |timeshare_threads| are equal, each the number of the bucket's queued RUNNABLE threads, a
\* RUNNING thread not among them.
C23_ThrCountIsQueuedThreads ==
  \A c \in DOMAIN clutch_buckets :
    /\ clutch_buckets[c].scb_thr_count = Cardinality(QueuedThreadsOf(c))
    /\ Cardinality(clutch_buckets[c].scb_thread_runq.heap) = Cardinality(QueuedThreadsOf(c))
    /\ Cardinality(clutch_buckets[c].scb_clutchpri_prioq.heap) = Cardinality(QueuedThreadsOf(c))
    /\ Len(clutch_buckets[c].scb_timeshare_threads) = Cardinality(QueuedThreadsOf(c))
    /\ \A t \in QueuedThreadsOf(c) : HeapCount(clutch_buckets[c].scb_thread_runq, t) = 1



\* The threads of clutch bucket c = (thread group, bucket) that are RUNNING.
RunningThreadsOf(c) ==
  {t \in Threads : /\ threads[t].tg = c[1]
                   /\ threads[t].th_sched_bucket = c[2]
                   /\ threads[t].state = "RUNNING"}

NonEmptyClutchBuckets == {c \in DOMAIN clutch_buckets : clutch_buckets[c].scb_thread_runq.heap # {}}

\* The highest current sched_pri among the threads queued in clutch bucket c.
TopSchedPri(c) ==
  LET pris == {threads[e.item].sched_pri : e \in clutch_buckets[c].scb_thread_runq.heap}
  IN CHOOSE m \in pris : \A n \in pris : n <= m

\* C25 (I-8): after every call, ClutchRoot.priority is the current raw sched_pri of the
\* highest-priority runnable thread of the winning clutch bucket, NOPRI when the hierarchy is
\* empty; stated here for whichever non-empty clutch bucket is the winning one.
C25_RootPriorityIsTopSchedPri ==
  IF NonEmptyClutchBuckets = {} THEN clutch_root.scr_priority = NOPRI
  ELSE \E c \in NonEmptyClutchBuckets : clutch_root.scr_priority = TopSchedPri(c)



\* The threads queued in the clutch bucket of thread t, other than t.
QueuedPeers(t) ==
  {u \in Threads \ {t} :
     HeapCount(clutch_buckets[<<threads[t].tg, threads[t].th_sched_bucket>>].scb_thread_runq, u) > 0}

\* C26: when the quantum of a thread that is neither realtime nor bound expires and a thread of
\* the same sched_pri is queued in its clutch bucket, thread_quantum_expire dispatches a queued
\* thread and puts the expired thread back into the runqueue: the expired thread does not win
\* the tie.
C26_ExpiredThreadLosesTie ==
  [][\A t \in Threads :
       (/\ IsCall({"thread_quantum_expire"}, t)
        /\ ~is_realtime(threads[t]) /\ threads[t].bound_processor = 0
        /\ \E u \in QueuedPeers(t) : threads[u].sched_pri = threads'[t].sched_pri)
       => /\ call'.ret # t
          /\ call'.ret \in QueuedPeers(t)
          /\ threads'[t].state = "RUNNABLE"
          /\ InRunqueue(t)']_vars

\* C27: on one processor where threads of a higher-QoS timeshare bucket and a thread of a
\* lower-QoS timeshare bucket stay runnable, quantum expiries at advancing times eventually
\* dispatch the thread of the lower bucket.
LowThreadRunning ==
  /\ processors[1].active_thread = LowThread
  /\ threads[LowThread].state = "RUNNING"

C27_LowerBucketEventuallyDispatched == <>LowThreadRunning

\* C27 witness: a quantum expiry of a thread of the higher bucket gave the processor to the
\* thread of the lower bucket, after the higher bucket had spent its warp.
C27_LowerBucketDispatchedAfterWarp ==
  /\ LowThreadRunning
  /\ call.op = "thread_quantum_expire" /\ call.thread # LowThread /\ call.ret = LowThread
  /\ clutch_root.scr_unbound_buckets[threads[1].th_sched_bucket].scrb_warp_remaining = 0

\* No thread is queued in the RT queue, in any clutch bucket, or in processor p's bound runqueue.
NothingQueuedFor(p) ==
  /\ \A b \in DOMAIN rt_runq.queues : rt_runq.queues[b] = <<>>
  /\ \A c \in DOMAIN clutch_buckets : clutch_buckets[c].scb_thread_runq.heap = {}
  /\ bound_runqs[p].heap = {}

\* thread_select(processor, now, None) has just returned None: either called by itself, or by
\* _try_dispatch_idle, which leaves the idle processor without an active thread in that case.
SelectedNone ==
  /\ call.op \in {"thread_select", "try_dispatch_idle"}
  /\ call.ret = 0

\* C28: work conservation: thread_select(processor, now, None) returns None only if the RT queue,
\* the whole clutch hierarchy and that processor's bound runqueue are all empty.
C28_SelectNoneOnlyIfNothingQueued == SelectedNone => NothingQueuedFor(call.processor)

\* C29: a thread bound to processor P, whatever its scheduling mode, is never selected for nor
\* dispatched on another processor: the active thread of a processor is unbound or bound to it.
C29_BoundThreadOnlyOnItsProcessor ==
  \A p \in Processors :
    processors[p].active_thread # 0 => threads[processors[p].active_thread].bound_processor \in {0, p}

\* thread_select(processor, now, prev_thread = thread 1) is called while thread 1, REALTIME, runs
\* on its first timeslice and the highest non-empty band of the RT queue is not above its priority.
SelectWithPrevRTAtTopPriority ==
  /\ calls' # calls /\ call'.op = "thread_select"
  /\ is_realtime(threads[1]) /\ processors[1].active_thread = 1 /\ processors[1].first_timeslice
  /\ rt_runq.count > 0
  /\ RTQueue_highest_priority(rt_runq) <= threads[1].sched_pri

\* thread_select returned prev_thread with chose_prev true and took nothing out of the RT queue.
PrevRTKept == call'.ret = 1 /\ call'.chose_prev /\ rt_runq' = rt_runq

\* The earliest-deadline test of _rt_prev_thread_can_continue.
QueuedDeadlineNotEarlier == RTQueue_peek_deadline(rt_runq) + RT_DEADLINE_EPSILON >= threads[1].rt_deadline

\* C30 as stated: when prev_thread is a REALTIME thread on its first timeslice and the highest
\* non-empty RT band's priority is <= prev_thread.sched_pri, thread_select keeps prev_thread
\* running (returns it with chose_prev true) and dequeues nothing from the RT queue.
C30_PrevRTKeptAtTopPriority == [][SelectWithPrevRTAtTopPriority => PrevRTKept]_vars

\* C30 amended: in that case thread_select keeps prev_thread (chose_prev true, nothing dequeued)
\* iff the earliest queued deadline plus epsilon is >= prev_thread.rt_deadline; otherwise it
\* dequeues a thread from the RT queue and returns it with chose_prev false.
C30_PrevRTKeptIffDeadlineNotEarlier ==
  [][SelectWithPrevRTAtTopPriority =>
       IF QueuedDeadlineNotEarlier THEN PrevRTKept
       ELSE /\ call'.ret = RTQueue_peek(rt_runq, threads) /\ call'.ret # 1 /\ ~call'.chose_prev
            /\ rt_runq'.count = rt_runq.count - 1]_vars

\* C30 happens: thread_select kept prev_thread on its first timeslice with a peer of no higher
\* priority and no earlier deadline queued.
C30_PrevRTKeptWithPeerQueued ==
  /\ call.op = "thread_select" /\ call.ret = 1 /\ call.chose_prev
  /\ processors[1].first_timeslice
  /\ rt_runq.count > 0
  /\ RTQueue_highest_priority(rt_runq) <= threads[1].sched_pri
  /\ RTQueue_peek_deadline(rt_runq) + RT_DEADLINE_EPSILON >= threads[1].rt_deadline

\* The step is a call whose thread_select runs with prev_thread None (thread_select on an idle
\* processor, thread_block) or with a prev_thread that is not REALTIME (thread_quantum_expire of
\* such a thread), while the RT queue is non-empty.
SelectWithRTQueuedAndNoRTPrev ==
  /\ calls' # calls
  /\ rt_runq.count > 0
  /\ \/ call'.op \in {"thread_select", "thread_block"}
     \/ call'.op = "thread_quantum_expire" /\ ~is_realtime(threads[call'.thread])

\* C31: whenever the RT queue is non-empty and prev_thread is None or not REALTIME, thread_select
\* returns a thread dequeued from the RT queue, never a clutch, bound or previous non-RT thread.
C31_RTQueuedThreadSelectedFirst ==
  [][SelectWithRTQueuedAndNoRTPrev =>
       /\ call'.ret # 0
       /\ call'.ret = RTQueue_peek(rt_runq, threads)
       /\ is_realtime(threads[call'.ret])
       /\ rt_runq'.count = rt_runq.count - 1
       /\ \A b \in DOMAIN rt_runq'.queues : \A i \in DOMAIN rt_runq'.queues[b] :
            rt_runq'.queues[b][i] # call'.ret]_vars

\* C31 happens: the quantum of a timeshare thread expired with a REALTIME thread queued, and the
\* REALTIME thread was selected and runs in its place.
C31_RTThreadReplacedTimeshareThread ==
  /\ call.op = "thread_quantum_expire"
  /\ ~is_realtime(threads[call.thread])
  /\ call.ret # call.thread /\ call.ret # 0
  /\ is_realtime(threads[call.ret]) /\ threads[call.ret].state = "RUNNING"
  /\ threads[call.thread].state = "RUNNABLE"

\* highest_root_bucket has just selected root bucket call.ret as the earliest-deadline bucket,
\* with no higher bucket warping past it.
SelectedInEdfOrder == call.op = "highest_root_bucket" /\ call.how = "edf"

\* The root bucket selected is enqueued normally, not represented by prev_thread only.
SelectedEnqueuedNormally == ~call.chose_prev

\* The warp budget of root bucket b is whole, and its warp_available bit is set iff normally.
WarpRestored(b, normally) ==
  /\ clutch_root.scr_unbound_buckets[b].scrb_warp_remaining = ROOT_BUCKET_WARP_US[b + 1]
  /\ (b \in clutch_root.scr_unbound_warp_available) <=> normally

\* C32 as stated: whenever a timeshare root bucket is selected in natural EDF order (it is the
\* earliest-deadline bucket and no higher bucket warps past it), its warp_remaining is restored to
\* WARP_US[bucket] and its warp_available bit is set iff the bucket is enqueued normally.
C32_WarpRestoredInEdfOrder == SelectedInEdfOrder => WarpRestored(call.ret, SelectedEnqueuedNormally)

\* C32 amended: whenever a timeshare root bucket is selected as the earliest-deadline bucket with
\* no higher bucket warping past it, and the selection does not put or leave it in starvation
\* avoidance (no runnable bucket, prev_thread's included, is of higher QoS), its warp_remaining is
\* WARP_US[bucket] afterwards and its warp_available bit is set iff the bucket is enqueued normally.
C32_WarpRestoredInNaturalEdfOrder ==
  (SelectedInEdfOrder /\ ~clutch_root.scr_unbound_buckets[call.ret].scrb_starvation_avoidance)
    => WarpRestored(call.ret, SelectedEnqueuedNormally)

\* C32 happens: the bucket of the running thread, empty otherwise, is selected in natural EDF order
\* while another bucket is enqueued: its warp budget is whole and its warp_available bit is not set.
C32_PrevBucketSelectedInEdfOrder ==
  /\ SelectedInEdfOrder /\ call.chose_prev
  /\ ~clutch_root.scr_unbound_buckets[call.ret].scrb_starvation_avoidance
  /\ clutch_root.scr_unbound_runnable_bitmap # {}
  /\ call.ret \notin clutch_root.scr_unbound_warp_available
  /\ clutch_root.scr_unbound_buckets[call.ret].scrb_warp_remaining = ROOT_BUCKET_WARP_US[call.ret + 1]

\* The timeshare root bucket b is in starvation avoidance and its window is still open at now.
StarvationWindowOpen(b, now) ==
  /\ ~is_above_timeshare(b)
  /\ clutch_root.scr_unbound_buckets[b].scrb_starvation_avoidance
  /\ now < clutch_root.scr_unbound_buckets[b].scrb_starvation_ts + THREAD_QUANTUM_US[b + 1]

\* C33: while a timeshare root bucket's starvation_avoidance flag is set and now is before
\* starvation_ts + THREAD_QUANTUM[bucket], no operation changes the bucket's EDF deadline
\* or clears the flag.
C33_DeadlineFrozenInStarvationAvoidance ==
  [][\A b \in Buckets : StarvationWindowOpen(b, clock') =>
       /\ clutch_root'.scr_unbound_buckets[b].scrb_deadline = clutch_root.scr_unbound_buckets[b].scrb_deadline
       /\ clutch_root'.scr_unbound_buckets[b].scrb_starvation_avoidance]_vars

\* The threads queued in the RT queue, and the rt_deadline each has now.
RTQueued == {rt_runq.queues[i][m] : <<i, m>> \in {x \in (DOMAIN rt_runq.queues) \X Threads : x[2] \in DOMAIN rt_runq.queues[x[1]]}}

RTBandsSortedByDeadline ==
  \A i \in DOMAIN rt_runq.queues : \A m, n \in DOMAIN rt_runq.queues[i] :
     m < n => threads[rt_runq.queues[i][m]].rt_deadline <= threads[rt_runq.queues[i][n]].rt_deadline

RTGlobalEarliestRecorded ==
  IF RTQueued = {}
  THEN rt_runq.earliest_deadline = RT_DEADLINE_NONE /\ rt_runq.ed_index = -1
  ELSE /\ \A t \in RTQueued : rt_runq.earliest_deadline <= threads[t].rt_deadline
       /\ rt_runq.ed_index \in DOMAIN rt_runq.queues
       /\ \E m \in DOMAIN rt_runq.queues[rt_runq.ed_index] :
             threads[rt_runq.queues[rt_runq.ed_index][m]].rt_deadline = rt_runq.earliest_deadline

\* C34: at every point of a simulation run each RT band is sorted by ascending current
\* rt_deadline, and the recorded global earliest deadline and band index are the minimum
\* rt_deadline over the queued RT threads and a band that holds it.
C34_RTQueueOrderedByCurrentDeadline == RTBandsSortedByDeadline /\ RTGlobalEarliestRecorded

\* C35: after HumanTaskScheduler.resume_task, a task paused while queued included, the run
\* count of every clutch bucket group is the number of its threads that are RUNNABLE or
\* RUNNING: pause/resume cycles add nothing to the run count.
C35_RunCountAfterPauseAndResume ==
  call.op = "resume_task" =>
    \A c \in DOMAIN bucket_groups :
      bucket_groups[c].scbg_blocked_count = Cardinality(RunnableOrRunning(c))

\* What a root-bucket selection with prev_bucket can consume by restarting: the starvation
\* avoidance flags that are set, the warp_available bits, and the warp budget of prev_bucket.
RestartBudget(prev_bucket) ==
  Cardinality({b \in Buckets : clutch_root.scr_unbound_buckets[b].scrb_starvation_avoidance})
  + Cardinality(clutch_root.scr_unbound_warp_available)
  + (IF prev_bucket # -1 /\ clutch_root.scr_unbound_buckets[prev_bucket].scrb_warp_remaining > 0
     THEN 1 ELSE 0)

\* C36: highest_root_bucket returns, from every hierarchy state and at every now, after no more
\* restarts of the EDF loop than there are starvation-avoidance flags, warp_available bits and
\* warp budget of the previous bucket to consume.
C36_RootSelectionTerminates ==
  [][(calls' # calls /\ call'.op = "highest_root_bucket")
       => /\ ~failed'
          /\ call'.restarts <= RestartBudget(LanePrevBucket)]_vars

\* C36 happens: a selection has restarted the EDF loop, an expired warp window consumed, and
\* then returned the earliest-deadline bucket.
C36_SelectedAfterRestart ==
  /\ call.op = "highest_root_bucket"
  /\ call.restarts >= 1
  /\ call.how = "edf"
  /\ call.ret # -1
  /\ ~failed

\* The clutch-bucket runqueue of unbound root bucket b holds a clutch bucket.
RootBucketRunqueueNonEmpty(b) ==
  \E p \in DOMAIN clutch_root.scr_unbound_buckets[b].scrb_clutch_buckets.queues :
     clutch_root.scr_unbound_buckets[b].scrb_clutch_buckets.queues[p] # <<>>

\* C37: after every facade call, the runnable bitmap bit of every unbound root bucket is set iff
\* its clutch-bucket runqueue is non-empty, and a timeshare root bucket is in the EDF deadline
\* queue exactly once if its bit is set and not at all otherwise.
C37_RunnableBitmapMatchesQueues ==
  \A b \in Buckets :
    /\ (b \in clutch_root.scr_unbound_runnable_bitmap) <=> RootBucketRunqueueNonEmpty(b)
    /\ HeapCount(clutch_root.scr_unbound_root_prioq, b) =
         (IF ~is_above_timeshare(b) /\ b \in clutch_root.scr_unbound_runnable_bitmap THEN 1 ELSE 0)


\* C37 happens: a quantum expiry has put another thread on the processor; the bucket of a thread
\* that is running is empty, with its bit clear and no entry in the EDF queue, while two other
\* timeshare buckets are runnable, each in the EDF queue once.
C37_EmptiedBucketLeftEdfQueue ==
  /\ call.op = "thread_quantum_expire"
  /\ call.ret # call.thread
  /\ Cardinality(clutch_root.scr_unbound_runnable_bitmap) >= 2
  /\ \A b \in clutch_root.scr_unbound_runnable_bitmap : HeapCount(clutch_root.scr_unbound_root_prioq, b) = 1
  /\ \E t \in Threads :
       /\ threads[t].state = "RUNNING"
       /\ threads[t].th_sched_bucket \notin clutch_root.scr_unbound_runnable_bitmap
       /\ HeapCount(clutch_root.scr_unbound_root_prioq, threads[t].th_sched_bucket) = 0

\* The bitmap of runqueue rq has exactly the non-empty levels, and highq is the highest of them.
RunqueueCoherent(rq) ==
  /\ \A p \in 0 .. MAXPRI : (p \in rq.bitmap) <=> (CBRQ_queue(rq, p) # <<>>)
  /\ rq.highq = (IF rq.bitmap = {} THEN NOPRI ELSE BitmapHighest(rq.bitmap))

\* C38: after every enqueue, dequeue and rotate_at of a ClutchBucketRunqueue, bitmap bit p is set
\* iff queues[p] is non-empty, and highq is the highest set bit, NOPRI for an empty runqueue.
C38_RunqueueBitmapAndHighqCoherent ==
  \A b \in Buckets : RunqueueCoherent(clutch_root.scr_unbound_buckets[b].scrb_clutch_buckets)

\* C38 happens: a dequeue has emptied the highest level while a lower level holds an item, and
\* highq has come down to that level.
C38_HighestLevelEmptied ==
  /\ call.op = "dequeue"
  /\ call.ret \notin Runq.bitmap
  /\ Runq.highq # NOPRI
  /\ Runq.highq < call.ret
  /\ CBRQ_queue(Runq, Runq.highq) # <<>>

\* Every entry of the EDF deadline queue is an enqueued timeshare root bucket under its
\* current scrb_deadline.
EdfQueueKeyedByDeadline ==
  \A e \in clutch_root.scr_unbound_root_prioq.heap :
    /\ e.k = clutch_root.scr_unbound_buckets[e.item].scrb_deadline
    /\ e.item \in clutch_root.scr_unbound_runnable_bitmap
    /\ ~is_above_timeshare(e.item)

\* C39: whenever root-bucket selection calls peek_min, at the start of the loop and after every
\* restart, no bucket sits in the EDF queue under a key different from its scrb_deadline, so the
\* bucket returned is an enqueued timeshare root bucket of minimal scrb_deadline; the queue is
\* left that way by every call.
C39_EdfQueueKeysInStep ==
  /\ EdfQueueKeyedByDeadline
  /\ call.op = "highest_root_bucket" => call.keyed

\* C39 happens: a selection has restarted its loop and returned the bucket peek_min gave it, which
\* is in the EDF queue under a deadline that the call has just set, with another bucket behind it.
C39_PeekedAfterRestart ==
  /\ call.op = "highest_root_bucket"
  /\ call.restarts >= 1
  /\ ~call.chose_prev
  /\ call.ret # -1
  /\ Cardinality(clutch_root.scr_unbound_root_prioq.heap) >= 2
  /\ \E e \in clutch_root.scr_unbound_root_prioq.heap :
       e.item = call.ret /\ e.k = clock + ROOT_BUCKET_WCEL_US[call.ret + 1]

\* C40: whenever the warp_available bit of a root bucket is set, the bucket is a runnable timeshare
\* root bucket and its warp_remaining is above 0; the bit is never set for a bucket without warp
\* budget, such as BG.
C40_WarpBitOnlyWithWarpBudget ==
  \A b \in clutch_root.scr_unbound_warp_available :
    /\ ~is_above_timeshare(b)
    /\ b \in clutch_root.scr_unbound_runnable_bitmap
    /\ clutch_root.scr_unbound_buckets[b].scrb_warp_remaining > 0

====
